---- MODULE Spec2Model ----
(***************************************************************************)
(* Model of nengo_ocl: the OpenCL simulator driver (sim_ocl.py) and the    *)
(* kernel planners (clra_nonlinearities.py).                               *)
(*                                                                         *)
(*   Spec      : Simulator.run_steps / drain_probe_buffers / probe kernel  *)
(*   FairSpec  : Spec with the fairness of the single host thread          *)
(*   SetupSpec : Simulator.__init__ building the plan dictionary, and the  *)
(*               DAG replaying it                                          *)
(*   PlanSpec  : _plan_template checking a batch, and the Flattened and    *)
(*               Block kernels it generates running over the batch         *)
(*   LifSpec   : the element update of the kernel plan_lif generates,      *)
(*               applied tick after tick to one neuron                     *)
(*   DirectSpec: Simulator.plan_SimDirect planning a group of SimDirect    *)
(*               operators, with its fallback to host-side plans           *)
(*   KernelSpec: the work-items of one row of the probe kernel, stepping   *)
(*               one memory access at a time, launch after launch          *)
(*   QueueSpec : run_steps and drain_probe_buffers statement by statement, *)
(*               with the device running the command queue on its own      *)
(***************************************************************************)
EXTENDS Integers, Sequences, FiniteSets, TLC

\* ---------------------------------------------------------------- bounds
MaxProbes   == 2    \* number of probes in the model
MaxProbeDt  == 5    \* largest probe dt, in time units
ModelDt     == 2    \* model dt, in the same time units
MaxPrealloc == 2    \* largest n_prealloc_probes
MaxN        == 5    \* largest argument of run_steps
MaxSteps    == 6    \* total number of ticks simulated
MaxGroups   == 3    \* number of operator groups of the model
MaxPlans    == 2    \* most plans one group's planner returns
MaxIters    == 2    \* iterations of the DAG that are replayed
MaxRows     == 3    \* rows of a batch whose kernels are run
MaxLen      == 2    \* longest row of a batch
MaxTotal    == 4    \* most elements in one ragged array
MaxNElements == 3   \* largest n_elements of a Flattened plan
MaxVRows    == 2    \* rows of the ill-formed batches given to _plan_template
MaxJ        == 3    \* largest input current J of the LIF neuron
MaxRef      == 2    \* largest refractory period tau_ref, in units of dt
MaxTau      == 2    \* largest membrane time constant tau_rc, in units of dt
MaxUpsample == 3    \* largest upsample of a LIF plan
MaxSubSteps == 4    \* sub-steps the LIF neuron is stepped, over all its ticks
MaxFns      == 2    \* distinct functions among the SimDirect operators
MaxOps      == 3    \* SimDirect operators in the group
MaxWI       == 3    \* work-items of the work-group of a probe row
MaxDims     == 2    \* dimensions of the probed signal
MaxKPeriod  == 2    \* largest period of the row run by KernelSpec
MaxKTicks   == 2    \* launches of the probe kernel in KernelSpec
MaxRateLen  == 2    \* neurons in the row of rate neurons
MaxDtInv    == 2    \* the time steps of RateSpec are 1/1 .. 1/MaxDtInv

VARIABLES
    periods,      \* plan_probes: periods[i], one per probe
    n_prealloc,   \* Simulator.n_prealloc_probes
    sim,          \* device + host probe state (see InitSim)
    pc,           \* position of the host thread inside run_steps
    N,            \* run_steps: remaining steps (the local N)
    B,            \* run_steps: size of the current batch
    b,            \* call_n_times: iterations still to run in this batch
    N0,           \* argument of the run_steps call in progress / last returned
    entry,        \* simulator state at the entry of that call
    undrained,    \* ticks executed since the last drain (or construction)
    op_groups,    \* self.op_groups: op_groups[g] = number of plans that the
                  \* planner of group g returns
    gi,           \* __init__: index of the next group of the for loop
    deps,         \* __init__: the local deps
    plandict,     \* self._plandict: plan id -> [deps, group], ids in
                  \* insertion order
    setup_pc,     \* "op_groups", "ready" (the DAG is built) or "off"
    launched,     \* DAG: plans launched in the current iteration
    iters,        \* DAG: iterations completed
    lengths,      \* base.shape0s: row lengths of the reference input j
    oshape0s,     \* shape0s of the output r
    pshape0s,     \* shape0s of the parameter tau
    n_elements,   \* n_elements of the Flattened plan (0 until it is built)
    plan_pc,      \* _plan_template: "call", "raised", "checked", "built";
                  \* "off" outside PlanSpec
    error,        \* the error _plan_template raised, or NoError
    flat_out,     \* output buffer the Flattened kernel writes
    flat_done,    \* Flattened work-items (gid) that have run
    flat_visits,  \* flat_visits[gid + 1]: the (n, m) each work-item processed
    block_out,    \* output buffer the Block kernel writes
    block_done,   \* the Block kernel has run
    block_visits, \* the addresses each cell of the Block grid accessed, the
                  \* cells in row-major order
    fault,        \* some access fell outside the buffers
    lif,          \* one LIF neuron: its parameters, its state buffers V, W
                  \* and S, and the sub-steps of its last tick (see LifInit)
    direct,       \* plan_SimDirect: its arguments, locals and result (see
                  \* DirectInit)
    wg,           \* the work-group of one probe row: the row's device state
                  \* and every work-item's position and locals (see KInit)
    hq,           \* the command queue and the host's locals in
                  \* drain_probe_buffers (see QInit)
    rt            \* one row of rate neurons: the plan's constants, the
                  \* row's tau and ref, and its buffers J and R (see RateInit)

simVars == <<periods, n_prealloc, sim, pc, N, B, b, N0, entry, undrained>>
dagVars == <<op_groups, gi, deps, plandict, setup_pc, launched, iters>>
planVars == <<lengths, oshape0s, pshape0s, n_elements, plan_pc, error,
              flat_out, flat_done, flat_visits, block_out, block_done,
              block_visits, fault>>
extVars == <<lif, direct, wg, hq, rt>>
vars == <<periods, n_prealloc, sim, pc, N, B, b, N0, entry, undrained,
          op_groups, gi, deps, plandict, setup_pc, launched, iters,
          lengths, oshape0s, pshape0s, n_elements, plan_pc, error,
          flat_out, flat_done, flat_visits, block_out, block_done,
          block_visits, fault,
          lif, direct, wg, hq, rt>>

\* ------------------------------------------------------------- helpers
Min2(x, y) == IF x <= y THEN x ELSE y

RECURSIVE MinOf(_)
MinOf(s) == IF Len(s) = 1 THEN s[1] ELSE Min2(s[1], MinOf(Tail(s)))

\* int(np.round(float(p.dt) / self.model.dt)): round half to even
RoundDiv(a, d) ==
    LET q == a \div d
        r == a % d
    IN  IF 2 * r < d THEN q
        ELSE IF 2 * r > d THEN q + 1
        ELSE IF q % 2 = 0 THEN q ELSE q + 1

Periods(dts) == [i \in 1..Len(dts) |-> RoundDiv(dts[i], ModelDt)]

NumProbes == Len(periods)

\* hasattr(self, '_cl_probe_plan'): set by plan_probes iff there are probes
has_probes == NumProbes > 0

RECURSIVE MaxOf(_)
MaxOf(s) == IF Len(s) = 1 THEN s[1] ELSE LET m == MaxOf(Tail(s)) IN IF s[1] >= m THEN s[1] ELSE m

\* variant: the bound is taken from the slowest probe instead of the fastest
MaxStepsBetweenProbes_MaxPeriod == n_prealloc * MaxOf(periods)

\* variant: the bound lets one tick too many through
MaxStepsBetweenProbes_PlusOne == n_prealloc * MinOf(periods) + 1

\* self._max_steps_between_probes = n_prealloc * min(periods)
MaxStepsBetweenProbes == n_prealloc * MinOf(periods)

\* value held by the signal of probe n once tick t has run its operators
SignalAt(n, t) == <<n, t>>

\* np.zeros((n_prealloc, d)): an unwritten ring slot
ZeroSample == <<0, 0>>

\* Y is one flat buffer; the ring of probe n starts at Ystarts(n) (0-based)
Ystarts(n) == (n - 1) * n_prealloc

\* plan.Y[i]: the n_prealloc ring rows of probe i
YRow(s, i) == [k \in 1..n_prealloc |-> s.Y[Ystarts(i) + k]]

\* seq[:n] of Python: the first n items, or all of them when there are fewer
Take(seq, n) == SubSeq(seq, 1, Min2(n, Len(seq)))

InitSim(np, npre) ==
    [ countdowns    |-> [i \in 1..np |-> 0],
      bufpositions  |-> [i \in 1..np |-> 0],
      Y             |-> [k \in 1..(np * npre) |-> ZeroSample],
      probe_outputs |-> [i \in 1..np |-> << >>],
      steps         |-> 0,
      raised        |-> FALSE ]

\* variant: the countdown restarts at period instead of period - 1
ProbeRow_ResetToPeriod(s, n) ==
    IF s.countdowns[n] = 0
    THEN LET bufpos == s.bufpositions[n]
             k      == (n - 1) * n_prealloc + bufpos
         IN  [s EXCEPT !.Y = IF k < Len(s.Y)
                             THEN [@ EXCEPT ![k + 1] = SignalAt(n, s.steps)]
                             ELSE @,
                       !.countdowns[n]   = periods[n],
                       !.bufpositions[n] = bufpos + 1]
    ELSE [s EXCEPT !.countdowns[n] = @ - 1]

\* variant: a row that sampled keeps its countdown at 0
ProbeRow_KeepCountdown(s, n) ==
    IF s.countdowns[n] = 0
    THEN LET bufpos == s.bufpositions[n]
             k      == (n - 1) * n_prealloc + bufpos
         IN  [s EXCEPT !.Y = IF k < Len(s.Y)
                             THEN [@ EXCEPT ![k + 1] = SignalAt(n, s.steps)]
                             ELSE @,
                       !.bufpositions[n] = bufpos + 1]
    ELSE [s EXCEPT !.countdowns[n] = @ - 1]

\* ------------------------------------------------------ the probe kernel
\* the work-group of row n, for one launch of the kernel
ProbeRow(s, n) ==
    IF s.countdowns[n] = 0
    THEN LET bufpos == s.bufpositions[n]
             k      == Ystarts(n) + bufpos
         IN  [s EXCEPT !.Y = IF k < Len(s.Y)
                             THEN [@ EXCEPT ![k + 1] = SignalAt(n, s.steps)]
                             ELSE @,
                       !.countdowns[n]   = periods[n] - 1,
                       !.bufpositions[n] = bufpos + 1]
    ELSE [s EXCEPT !.countdowns[n] = @ - 1]

RECURSIVE ProbeRows(_, _)
ProbeRows(s, rows) ==
    IF rows = << >> THEN s
    ELSE ProbeRows(ProbeRow(s, Head(rows)), Tail(rows))

\* one launch over all rows; the work-groups of different rows are not
\* ordered, so the rows take effect in either order
ProbesFn(s, race) ==
    LET np == Len(s.countdowns)
    IN  ProbeRows(s, [i \in 1..np |-> IF race THEN np + 1 - i ELSE i])

\* one iteration of the DAG: the operators advance the signals by one tick,
\* then the probe kernel (which depends on them) runs
DagIteration(s, race) ==
    LET t == [s EXCEPT !.steps = @ + 1]
    IN  IF Len(s.countdowns) > 0 THEN ProbesFn(t, race) ELSE t

\* variant: the drain also restarts the countdowns
DrainProbeBuffers_ResetCountdowns(s) ==
    [s EXCEPT
       !.probe_outputs =
           [i \in 1..Len(s.countdowns) |->
               LET n_buffered == s.bufpositions[i]
               IN  IF n_buffered # 0
                   THEN s.probe_outputs[i] \o Take(YRow(s, i), n_buffered)
                   ELSE s.probe_outputs[i]],
       !.bufpositions = [i \in 1..Len(s.countdowns) |-> 0],
       !.countdowns   = [i \in 1..Len(s.countdowns) |-> 0]]

\* variant: the whole ring is appended, without the [:n_buffered] slice
DrainProbeBuffers_WholeRing(s) ==
    [s EXCEPT
       !.probe_outputs =
           [i \in 1..Len(s.countdowns) |->
               LET n_buffered == s.bufpositions[i]
               IN  IF n_buffered # 0
                   THEN s.probe_outputs[i] \o YRow(s, i)
                   ELSE s.probe_outputs[i]],
       !.bufpositions = [i \in 1..Len(s.countdowns) |-> 0]]

\* variant: bufpositions is not zeroed after the copy
DrainProbeBuffers_NoFill(s) ==
    [s EXCEPT
       !.probe_outputs =
           [i \in 1..Len(s.countdowns) |->
               LET n_buffered == s.bufpositions[i]
               IN  IF n_buffered # 0
                   THEN s.probe_outputs[i] \o Take(YRow(s, i), n_buffered)
                   ELSE s.probe_outputs[i]]]

\* variant: the drain also clears the ring it has copied
DrainProbeBuffers_ClearRing(s) ==
    [s EXCEPT
       !.probe_outputs =
           [i \in 1..Len(s.countdowns) |->
               LET n_buffered == s.bufpositions[i]
               IN  IF n_buffered # 0
                   THEN s.probe_outputs[i] \o Take(YRow(s, i), n_buffered)
                   ELSE s.probe_outputs[i]],
       !.bufpositions = [i \in 1..Len(s.countdowns) |-> 0],
       !.Y            = [k \in 1..Len(s.Y) |-> ZeroSample]]

\* ---------------------------------------------------- drain_probe_buffers
DrainProbeBuffers(s) ==
    [s EXCEPT
       !.probe_outputs =
           [i \in 1..Len(s.countdowns) |->
               LET n_buffered == s.bufpositions[i]
               IN  IF n_buffered # 0
                   THEN s.probe_outputs[i] \o Take(YRow(s, i), n_buffered)
                   ELSE s.probe_outputs[i]],
       !.bufpositions = [i \in 1..Len(s.countdowns) |-> 0]]

\* no plan template is under study in Spec and SetupSpec
PlanOff ==
    /\ lengths = << >>
    /\ oshape0s = << >>
    /\ pshape0s = << >>
    /\ n_elements = 0
    /\ plan_pc = "off"
    /\ error = [kind |-> "none", msg |-> << >>]
    /\ flat_out = << >>
    /\ flat_done = {}
    /\ flat_visits = << >>
    /\ block_out = << >>
    /\ block_done = FALSE
    /\ block_visits = << >>
    /\ fault = FALSE

\* no LIF neuron is under study outside LifSpec
LifOff == lif = [ticks |-> 0]

\* plan_SimDirect is not under study outside DirectSpec
DirectOff == direct = [dpc |-> "off"]

\* no work-group is under study outside KernelSpec
KernelOff == wg = [tick |-> 0]

\* the command queue is not under study outside QueueSpec
QueueOff == hq = [queue |-> << >>]

\* no rate plan is under study outside RateSpec
RateOff == rt = [ran |-> FALSE]

\* the plan dictionary is not under study in Spec
DagOff ==
    /\ op_groups = << >>
    /\ gi = 1
    /\ deps = {}
    /\ plandict = << >>
    /\ setup_pc = "off"
    /\ launched = {}
    /\ iters = 0

\* ------------------------------------------------------------ run_steps
Init ==
    /\ \E np \in 0..MaxProbes :
         \E dts \in [1..np -> 0..MaxProbeDt] :
           \E npre \in 1..MaxPrealloc :
             /\ periods = Periods(dts)
             /\ n_prealloc = npre
             /\ sim = InitSim(np, npre)
             /\ entry = InitSim(np, npre)
    /\ pc = "idle"
    /\ N = 0
    /\ B = 0
    /\ b = 0
    /\ N0 = 0
    /\ undrained = 0
    /\ DagOff
    /\ PlanOff
    /\ LifOff
    /\ DirectOff
    /\ KernelOff
    /\ QueueOff
    /\ RateOff

\* def run_steps(self, N): the precondition check
RunSteps(n) ==
    /\ pc = "idle"
    /\ sim.steps + n <= MaxSteps
    /\ IF has_probes /\ (\E i \in 1..NumProbes : sim.bufpositions[i] # 0)
       THEN /\ sim' = [sim EXCEPT !.raised = TRUE]
            /\ UNCHANGED <<pc, N, N0, entry>>
       ELSE /\ pc' = "while"
            /\ N' = n
            /\ N0' = n
            /\ entry' = sim
            /\ UNCHANGED sim
    /\ UNCHANGED <<periods, n_prealloc, B, b, undrained>>
    /\ UNCHANGED dagVars
    /\ UNCHANGED planVars
    /\ UNCHANGED extVars

\* while N: ... B = min(N, self._max_steps_between_probes) if has_probes else N
WhileBody ==
    /\ pc = "while"
    /\ N # 0
    /\ B' = IF has_probes THEN Min2(N, MaxStepsBetweenProbes) ELSE N
    /\ b' = B'
    /\ pc' = "call_n_times"
    /\ UNCHANGED <<periods, n_prealloc, sim, N, N0, entry, undrained>>
    /\ UNCHANGED dagVars
    /\ UNCHANGED planVars
    /\ UNCHANGED extVars

\* self._dag.call_n_times(B): one iteration
CallNTimes ==
    /\ pc = "call_n_times"
    /\ b > 0
    /\ \E race \in BOOLEAN : sim' = DagIteration(sim, race)
    /\ b' = b - 1
    /\ undrained' = undrained + 1
    /\ UNCHANGED <<periods, n_prealloc, pc, N, B, N0, entry>>
    /\ UNCHANGED dagVars
    /\ UNCHANGED planVars
    /\ UNCHANGED extVars

\* if has_probes: self.drain_probe_buffers();  N -= B
Drain ==
    /\ pc = "call_n_times"
    /\ b = 0
    /\ has_probes
    /\ sim' = DrainProbeBuffers(sim)
    /\ undrained' = 0
    /\ N' = N - B
    /\ pc' = "while"
    /\ UNCHANGED <<periods, n_prealloc, B, b, N0, entry>>
    /\ UNCHANGED dagVars
    /\ UNCHANGED planVars
    /\ UNCHANGED extVars

\* N -= B when there are no probes
NoDrain ==
    /\ pc = "call_n_times"
    /\ b = 0
    /\ ~has_probes
    /\ N' = N - B
    /\ pc' = "while"
    /\ UNCHANGED <<periods, n_prealloc, sim, B, b, N0, entry, undrained>>
    /\ UNCHANGED dagVars
    /\ UNCHANGED planVars
    /\ UNCHANGED extVars

\* the while loop ends and run_steps returns
Return ==
    /\ pc = "while"
    /\ N = 0
    /\ pc' = "idle"
    /\ UNCHANGED <<periods, n_prealloc, sim, N, B, b, N0, entry, undrained>>
    /\ UNCHANGED dagVars
    /\ UNCHANGED planVars
    /\ UNCHANGED extVars

Next ==
    \/ \E n \in 0..MaxN : RunSteps(n)
    \/ WhileBody
    \/ CallNTimes
    \/ Drain
    \/ NoDrain
    \/ Return

Spec == Init /\ [][Next]_vars

\* the host thread runs run_steps to its end once it is called
FairSpec == Spec /\ WF_vars(WhileBody \/ CallNTimes \/ Drain \/ NoDrain \/ Return)

\* ------------------------------------------- __init__: the DAG set-up
NumPlans == Len(plandict)

\* variant: the plans of a group are also made to wait for their own group
Register_OwnGroup(k, g, d) ==
    plandict \o [j \in 1..k |->
                   [deps |-> d \cup ((Len(plandict) + 1)..(Len(plandict) + k)),
                    group |-> g]]

\* for p in plans: self._plandict[p] = deps; the plans of group g get
\* the next ids (the probe plans are group Len(op_groups) + 1)
Register(k, g, d) ==
    plandict \o [j \in 1..k |-> [deps |-> d, group |-> g]]

SetupInit ==
    /\ \E ng \in 0..MaxGroups : op_groups \in [1..ng -> 0..MaxPlans]
    /\ gi = 1
    /\ deps = {}
    /\ plandict = << >>
    /\ setup_pc = "op_groups"
    /\ launched = {}
    /\ iters = 0
    /\ \E dts \in {<< >>, <<ModelDt>>} : periods = Periods(dts)
    /\ n_prealloc = 1
    /\ sim = InitSim(Len(periods), 1)
    /\ entry = InitSim(Len(periods), 1)
    /\ pc = "idle"
    /\ N = 0
    /\ B = 0
    /\ b = 0
    /\ N0 = 0
    /\ undrained = 0
    /\ PlanOff
    /\ LifOff
    /\ DirectOff
    /\ KernelOff
    /\ QueueOff
    /\ RateOff

\* for op_type, op_list in self.op_groups:
\*     deps = self.plandict_op_group(op_type, op_list, deps)
PlandictOpGroup ==
    /\ setup_pc = "op_groups"
    /\ gi <= Len(op_groups)
    /\ LET k == op_groups[gi]
       IN  /\ plandict' = Register(k, gi, deps)
           /\ deps' = (NumPlans + 1)..(NumPlans + k)
    /\ gi' = gi + 1
    /\ UNCHANGED <<op_groups, setup_pc, launched, iters>>
    /\ UNCHANGED simVars
    /\ UNCHANGED planVars
    /\ UNCHANGED extVars

\* probe_plans = self.plan_probes(); for p in probe_plans: ...; DAG(...)
PlanProbes ==
    /\ setup_pc = "op_groups"
    /\ gi > Len(op_groups)
    /\ plandict' = Register(IF has_probes THEN 1 ELSE 0, gi, deps)
    /\ setup_pc' = "ready"
    /\ UNCHANGED <<op_groups, gi, deps, launched, iters>>
    /\ UNCHANGED simVars
    /\ UNCHANGED planVars
    /\ UNCHANGED extVars

\* the DAG launches a node once all the nodes in its dependency list have
\* been launched in this iteration
DagLaunch(p) ==
    /\ setup_pc = "ready"
    /\ iters < MaxIters
    /\ p \in (1..NumPlans) \ launched
    /\ plandict[p].deps \subseteq launched
    /\ launched' = launched \cup {p}
    /\ UNCHANGED <<op_groups, gi, deps, plandict, setup_pc, iters>>
    /\ UNCHANGED simVars
    /\ UNCHANGED planVars
    /\ UNCHANGED extVars

\* every node has run: the iteration of call_n_times is over
DagIterationEnd ==
    /\ setup_pc = "ready"
    /\ iters < MaxIters
    /\ launched = 1..NumPlans
    /\ launched' = {}
    /\ iters' = iters + 1
    /\ UNCHANGED <<op_groups, gi, deps, plandict, setup_pc>>
    /\ UNCHANGED simVars
    /\ UNCHANGED planVars
    /\ UNCHANGED extVars

SetupNext ==
    \/ PlandictOpGroup
    \/ PlanProbes
    \/ \E p \in 1..(MaxGroups * MaxPlans + 1) : DagLaunch(p)
    \/ DagIterationEnd

SetupSpec == SetupInit /\ [][SetupNext]_vars

\* the plans p depends on, directly or transitively (dependency lists only
\* name plans inserted earlier)
RECURSIVE TransDeps(_)
TransDeps(p) ==
    plandict[p].deps \cup UNION {TransDeps(q) : q \in plandict[p].deps}

\* C4: every plan of an operator group depends, directly or transitively,
\* on every plan of every earlier registered group, and in every iteration
\* it is launched only when all the plans of the earlier groups have been
\* launched.
C4_GroupsRunInOrder ==
    \A p \in 1..NumPlans : \A q \in 1..NumPlans :
        (plandict[p].group <= Len(op_groups)
            /\ plandict[q].group < plandict[p].group) =>
            /\ q \in TransDeps(p)
            /\ (p \in launched => q \in launched)

\* C22: once the DAG is built, the probe sampler plan depends, directly or
\* transitively, on every plan of every operator group, whatever the list
\* of groups (an empty last group included), and in every iteration it is
\* launched only when all of them have been launched.
C22_ProbesAfterAllGroups ==
    (setup_pc = "ready" /\ has_probes) =>
        \A p \in 1..NumPlans : \A q \in 1..NumPlans :
            (plandict[p].group = Len(op_groups) + 1
                /\ plandict[q].group <= Len(op_groups)) =>
                /\ q \in TransDeps(p)
                /\ (p \in launched => q \in launched)

\* C18: every plan's dependency list names only plans inserted into the
\* plan dictionary strictly before it (so the dependency map has no cycle),
\* and none of them is a plan of its own operator group.
C18_DependenciesAcyclic ==
    \A p \in 1..NumPlans :
        /\ plandict[p].deps \subseteq 1..(p - 1)
        /\ \A q \in plandict[p].deps : plandict[q].group # plandict[p].group

\* the DAG is built from three groups, the third one of two plans that
\* depend on the plans of the second, and it is being replayed
C18_Witness ==
    /\ setup_pc = "ready"
    /\ Len(op_groups) = 3
    /\ op_groups[2] >= 1
    /\ op_groups[3] = 2
    /\ \E p \in 1..NumPlans :
          /\ plandict[p].group = 3
          /\ plandict[p].deps # {}
          /\ p \in launched

\* ------------------------------------------- run_steps as a function
\* call_n_times(k) run to its end
RECURSIVE CallNTimesOp(_, _)
CallNTimesOp(s, k) ==
    IF k = 0 THEN s ELSE CallNTimesOp(DagIteration(s, FALSE), k - 1)

\* the while loop of run_steps run to its end
RECURSIVE RunStepsLoop(_, _)
RunStepsLoop(s, n) ==
    IF n = 0 THEN s
    ELSE LET batch == IF has_probes THEN Min2(n, MaxStepsBetweenProbes) ELSE n
             t     == CallNTimesOp(s, batch)
         IN  RunStepsLoop(IF has_probes THEN DrainProbeBuffers(t) ELSE t,
                          n - batch)

RunStepsOp(s, n) ==
    IF has_probes /\ (\E i \in 1..NumProbes : s.bufpositions[i] # 0)
    THEN [s EXCEPT !.raised = TRUE]
    ELSE RunStepsLoop(s, n)

\* def step(self): return self.run_steps(1), called k times in a row
RECURSIVE StepTimes(_, _)
StepTimes(s, k) == IF k = 0 THEN s ELSE StepTimes(RunStepsOp(s, 1), k - 1)

\* def probe_data(self, probe): np.vstack(self.probe_outputs[probe]):
\* the logged rows stacked in order; np.vstack raises ValueError when there
\* is no row to stack
probe_data(s, i) ==
    IF s.probe_outputs[i] = << >>
    THEN [raised |-> "ValueError", value |-> << >>]
    ELSE [raised |-> "", value |-> s.probe_outputs[i]]

\* ---------------------------------------------------------------- claims
\* the ticks 1..t at which a row of period p is sampled: the first tick and
\* every p-th tick after it
RECURSIVE SampleTicks(_, _)
SampleTicks(p, t) ==
    IF t = 0 THEN << >>
    ELSE IF (t - 1) % p = 0 THEN Append(SampleTicks(p, t - 1), t)
         ELSE SampleTicks(p, t - 1)

ExpectedLog(i, t) ==
    LET ticks == SampleTicks(periods[i], t)
    IN  [k \in 1..Len(ticks) |-> SignalAt(i, ticks[k])]

\* C1: when run_steps(N0) has returned, every probe's probe_data equals the
\* probe_data that N0 successive run_steps(1) calls produce from the state
\* the call was entered in (both raise when nothing has been sampled).
C1_RunStepsEqualsSingleSteps ==
    pc = "idle" =>
        \A i \in 1..NumProbes :
            probe_data(sim, i) = probe_data(StepTimes(entry, N0), i)

\* a call that needed several batches, with drains between them, returned
C1_Witness ==
    /\ pc = "idle"
    /\ has_probes
    /\ N0 > MaxStepsBetweenProbes
    /\ MaxStepsBetweenProbes >= 2
    /\ \E i \in 1..NumProbes :
          Len(probe_data(sim, i).value) >= Len(probe_data(entry, i).value) + 2

\* C2: no probe row's bufposition ever exceeds n_prealloc, and whenever the
\* kernel is about to run, a row that will sample (countdown 0) has a free
\* slot (bufposition < n_prealloc).
C2_RingNeverOverflows ==
    \A i \in 1..NumProbes :
        /\ sim.bufpositions[i] <= n_prealloc
        /\ (pc = "call_n_times" /\ b > 0 /\ sim.countdowns[i] = 0)
              => sim.bufpositions[i] < n_prealloc

\* with two probes of different periods, one ring is full
C2_Witness ==
    /\ NumProbes = 2
    /\ periods[1] # periods[2]
    /\ \E i \in 1..NumProbes : sim.bufpositions[i] = n_prealloc

\* C3: every run_steps(N0) call that passed its precondition returns, having
\* advanced the simulation by exactly N0 ticks.
C3_RunStepsTerminates ==
    [](pc = "while" => <>(pc = "idle" /\ sim.steps = entry.steps + N0))

\* C7: for each probe, the log followed by the not yet drained ring rows is
\* exactly the sequence of the signal's values at the probe's sampling
\* ticks so far, in tick order; between run_steps calls that sequence is
\* what probe_data returns (when it is empty there is nothing to return and
\* np.vstack raises).
C7_LogIsSampleSequence ==
    \A i \in 1..NumProbes :
        /\ sim.probe_outputs[i] \o Take(YRow(sim, i), sim.bufpositions[i])
              = ExpectedLog(i, sim.steps)
        /\ (pc = "idle" /\ ExpectedLog(i, sim.steps) # << >>)
              => probe_data(sim, i) = [raised |-> "",
                                       value |-> ExpectedLog(i, sim.steps)]

\* a log built by at least two drains, of a probe that skips ticks
C7_Witness ==
    /\ pc = "idle"
    /\ \E i \in 1..NumProbes :
          /\ periods[i] >= 2
          /\ Len(probe_data(sim, i).value) > n_prealloc
          /\ Len(probe_data(sim, i).value) < sim.steps

\* C8: once a batch has run p * n_prealloc (>= 1) ticks since the last
\* drain, a row of period p has bufposition = n_prealloc, and the batch is
\* over: the next thing run_steps does is the drain.
C8_FullAfterPeriodTimesPrealloc ==
    \A i \in 1..NumProbes :
        (pc = "call_n_times" /\ B - b >= 1 /\ B - b = periods[i] * n_prealloc)
            => (sim.bufpositions[i] = n_prealloc /\ b = 0)

\* a row of period 2 whose batch did not start on a sampling tick
C8_Witness ==
    /\ pc = "call_n_times"
    /\ \E i \in 1..NumProbes :
          /\ periods[i] >= 2
          /\ B - b = periods[i] * n_prealloc
          /\ entry.countdowns[i] # 0

\* C9: run_steps never raises on its precondition, and whenever no call is
\* in progress all bufpositions are zero.
C9_PreconditionHolds ==
    /\ ~sim.raised
    /\ pc = "idle" => \A i \in 1..NumProbes : sim.bufpositions[i] = 0

\* a call entered (and passed the assertion) after an earlier call sampled
C9_Witness ==
    /\ pc = "while"
    /\ has_probes
    /\ entry.steps > 0
    /\ \E i \in 1..NumProbes : Len(entry.probe_outputs[i]) > 0

\* C13: while there are probes, the ticks executed since the last drain (or
\* since construction) never exceed n_prealloc * min(periods); every batch
\* size B handed to call_n_times is within that bound; and when run_steps
\* is about to choose the next batch, or has returned, the batch before has
\* been drained (no tick is left undrained).
C13_TicksBetweenDrainsBounded ==
    has_probes =>
        /\ undrained <= n_prealloc * MinOf(periods)
        /\ pc = "call_n_times" => B <= n_prealloc * MinOf(periods)
        /\ pc \in {"while", "idle"} => undrained = 0

\* a full-size batch of at least two ticks has run, it is not the first
\* batch of the call, and more steps remain after it
C13_Witness ==
    /\ has_probes
    /\ pc = "call_n_times"
    /\ b = 0
    /\ B >= 2
    /\ B = n_prealloc * MinOf(periods)
    /\ undrained = B
    /\ N > B
    /\ sim.steps > entry.steps + B

\* C23: a step that drains the probe buffers sets every device bufposition
\* to zero and only extends the host logs (each keeps what it held); the
\* countdown and the period of every probe row, the ring contents, the
\* simulation time (hence every signal value) and the ring size are
\* unchanged, so the ticks left until each row's next sample are the same
\* before and after the drain.
C23_DrainFrame ==
    [][(has_probes /\ pc = "call_n_times" /\ pc' = "while") =>
          /\ \A i \in 1..NumProbes :
                /\ sim'.bufpositions[i] = 0
                /\ Len(sim'.probe_outputs[i]) >= Len(sim.probe_outputs[i])
                /\ Take(sim'.probe_outputs[i], Len(sim.probe_outputs[i]))
                      = sim.probe_outputs[i]
          /\ sim'.countdowns = sim.countdowns
          /\ periods' = periods
          /\ n_prealloc' = n_prealloc
          /\ sim'.Y = sim.Y
          /\ sim'.steps = sim.steps
          /\ sim'.raised = sim.raised
      ]_vars

\* a drain has just emptied a ring that held a sample, in the middle of a
\* row's period: the countdown is not zero, the ring still holds the sample
\* and the log has received it
C23_Witness ==
    /\ has_probes
    /\ pc = "while"
    /\ undrained = 0
    /\ sim.steps > entry.steps
    /\ \E i \in 1..NumProbes :
          /\ sim.countdowns[i] > 0
          /\ sim.bufpositions[i] = 0
          /\ sim.Y[Ystarts(i) + 1] # ZeroSample
          /\ Len(sim.probe_outputs[i]) > Len(entry.probe_outputs[i])

\* C15: for a probe row of period p >= 1, the countdown always lies in
\* 0..p-1; a tick entered with countdown 0 copies the signal into slot
\* bufposition, adds exactly 1 to bufposition and sets the countdown to
\* p - 1; any other tick only takes 1 off the countdown; so the ticks that
\* sample are tick 1 and every p-th tick after it.
C15_ProbeStateMachine ==
    /\ [](\A i \in 1..NumProbes :
            periods[i] >= 1 =>
                (sim.countdowns[i] >= 0 /\ sim.countdowns[i] <= periods[i] - 1))
    /\ [][\A i \in 1..NumProbes :
            (periods[i] >= 1 /\ sim'.steps = sim.steps + 1) =>
                IF sim.countdowns[i] = 0
                THEN /\ sim'.Y[Ystarts(i) + sim.bufpositions[i] + 1]
                           = SignalAt(i, sim'.steps)
                     /\ \A k \in 1..n_prealloc :
                           k # sim.bufpositions[i] + 1 =>
                               sim'.Y[Ystarts(i) + k] = sim.Y[Ystarts(i) + k]
                     /\ sim'.bufpositions[i] = sim.bufpositions[i] + 1
                     /\ sim'.countdowns[i] = periods[i] - 1
                     /\ (sim'.steps - 1) % periods[i] = 0
                ELSE /\ sim'.countdowns[i] = sim.countdowns[i] - 1
                     /\ sim'.bufpositions[i] = sim.bufpositions[i]
                     /\ YRow(sim', i) = YRow(sim, i)
                     /\ (sim'.steps - 1) % periods[i] # 0
          ]_vars

\* a row of period p >= 2 has just sampled for the second time
C15_Witness ==
    \E i \in 1..NumProbes :
        /\ periods[i] >= 2
        /\ sim.steps = periods[i] + 1
        /\ sim.countdowns[i] = periods[i] - 1
        /\ Len(sim.probe_outputs[i]) + sim.bufpositions[i] = 2

\* ----------------------------------------------------- _plan_template
NoError == [kind |-> "none", msg |-> << >>]

\* assert len(v) == N / assert all_equal(v.shape0s, base.shape0s): no message
AssertionError == [kind |-> "AssertionError", msg |-> << >>]

\* "%s.shape0s[%d] must be 1 or %d (not %d)"
\*     % (vname, i, base.shape0s[i], v.shape0s[i])
ParamShapeError(vname, i, base_len, v_len) ==
    [kind |-> "AssertionError", msg |-> <<vname, i, base_len, v_len>>]

\* variant: a parameter row of length 0 passes as a scalar
ParamRowOK_AtMostOne(v_len, base_len) == v_len = base_len \/ v_len <= 1

\* v.shape0s[i] == base.shape0s[i] or v.shape0s[i] == 1
ParamRowOK(v_len, base_len) == v_len = base_len \/ v_len = 1

\* the checks of _plan_template, in the order the code makes them, for the
\* input j (the base), the output r and the parameter tau; the rows are
\* numbered from 0 as in the code
PlanTemplateCheck(base, o, v) ==
    LET n_rows == Len(base)
    IN  IF Len(o) # n_rows THEN AssertionError
        ELSE IF o # base THEN AssertionError
        ELSE IF Len(v) # n_rows THEN AssertionError
        ELSE IF \E i \in 1..n_rows : ~ParamRowOK(v[i], base[i])
             THEN LET i == CHOOSE i \in 1..n_rows :
                              /\ ~ParamRowOK(v[i], base[i])
                              /\ \A k \in 1..(i - 1) : ParamRowOK(v[k], base[k])
                  IN  ParamShapeError("tau", i - 1, base[i], v[i])
             ELSE NoError

\* ----------------------------------------------------- ragged buffers
\* sum of the first n row lengths
RECURSIVE SumTo(_, _)
SumTo(lens, n) == IF n = 0 THEN 0 ELSE lens[n] + SumTo(lens, n - 1)

Total(lens) == SumTo(lens, Len(lens))

\* starts[n] of a packed ragged buffer, rows and offsets counted from 0
StartOf(lens, n) == SumTo(lens, n)

NRows == Len(lengths)

\* what a read outside a buffer yields, and the content of a fresh buffer
Wild == -1
Unwritten == <<Wild, Wild>>

\* in_j[k] and in_tau[k]: every buffer element holds its own index, so that
\* a result tells which elements it was computed from
RdIn(k) == IF k >= 0 /\ k < Total(lengths) THEN k ELSE Wild
RdParam(k) == IF k >= 0 /\ k < Total(pshape0s) THEN k ELSE Wild

\* the elementwise fragment core_text: r = f(j, tau)
Fragment(j, tau) == <<j, tau>>

\* *cur_r = r: a store outside the buffer leaves the buffer alone
Store(out, k, v) ==
    IF k >= 0 /\ k < Len(out) THEN [out EXCEPT ![k + 1] = v] ELSE out

InBuf(k, lens) == k >= 0 /\ k < Total(lens)

CeilDiv(a, d) == (a + d - 1) \div d

\* gsize = (int(np.ceil(np.sum(base.shape0s) / float(n_elements))),)
FlatGsize == CeilDiv(Total(lengths), n_elements)

\* ------------------------------------------- the Flattened-regime kernel
\* while (m >= lengths[n]) { m -= lengths[n]; n++; }
\* (gid * n_elements < sum(lengths) for every work-item of the launch, so
\* the loop ends at a row n < N)
RECURSIVE FindRow(_, _)
FindRow(m, n) ==
    IF n < NRows /\ m >= lengths[n + 1]
    THEN FindRow(m - lengths[n + 1], n + 1)
    ELSE <<m, n>>

\* one unrolled LOOP ITERATION ii of the work-item whose registers are w
RECURSIVE FlatIteration(_, _)
FlatIteration(w, ii) ==
    LET j   == RdIn(w.cur_j)
        tau == IF ii = 0 \/ w.tau_isvector THEN RdParam(w.cur_tau) ELSE w.tau
        w1  == [w EXCEPT !.tau = tau,
                         !.out = Store(@, w.cur_r, Fragment(j, tau)),
                         !.fault = @ \/ ~InBuf(w.cur_j, lengths)
                                     \/ ~InBuf(w.cur_r, lengths)
                                     \/ ((ii = 0 \/ w.tau_isvector)
                                            /\ ~InBuf(w.cur_tau, pshape0s)),
                         !.visits = Append(@, <<w.n, w.m>>)]
    IN  IF ii + 1 < n_elements
        THEN IF w.m + 1 >= lengths[w.n + 1]
             THEN LET n1 == w.n + 1
                  IN  IF n1 >= NRows THEN w1
                      ELSE LET isv == pshape0s[n1 + 1] > 1
                               cur == StartOf(pshape0s, n1)
                           IN  FlatIteration(
                                 [w1 EXCEPT !.m = 0,
                                            !.n = n1,
                                            !.cur_j = StartOf(lengths, n1),
                                            !.cur_r = StartOf(lengths, n1),
                                            !.cur_tau = cur,
                                            !.tau_isvector = isv,
                                            !.tau = IF ~isv THEN RdParam(cur)
                                                    ELSE @,
                                            !.fault = @ \/ (~isv /\
                                                ~InBuf(cur, pshape0s))],
                                 ii + 1)
             ELSE FlatIteration(
                    [w1 EXCEPT !.m = @ + 1,
                               !.cur_j = @ + 1,
                               !.cur_r = @ + 1,
                               !.cur_tau = IF w.tau_isvector THEN @ + 1 ELSE @],
                    ii + 1)
        ELSE w1

\* the work-item gid of the Flattened kernel, run on the output buffer out
FlatFn(gid, out) ==
    LET mn == FindRow(gid * n_elements, 0)
        m  == mn[1]
        n  == mn[2]
    IN  IF n >= NRows
        THEN [out |-> out, fault |-> FALSE, visits |-> << >>]
        ELSE LET isv == pshape0s[n + 1] > 1
                 w   == FlatIteration(
                          [m |-> m, n |-> n,
                           cur_j |-> StartOf(lengths, n) + m,
                           cur_r |-> StartOf(lengths, n) + m,
                           cur_tau |-> StartOf(pshape0s, n)
                                          + (IF isv THEN m ELSE 0),
                           tau_isvector |-> isv,
                           tau |-> Wild,
                           out |-> out, fault |-> FALSE, visits |-> << >>], 0)
             IN  [out |-> w.out, fault |-> w.fault, visits |-> w.visits]

\* ----------------------------------------------- the Block-regime kernel
\* gsize = (int(np.max(base.shape0s)), int(N))
BlockGsize == <<MaxOf(lengths), NRows>>

\* a cell that returns at "if (m >= M) return;" touches no buffer
NoAccess == [reads_j |-> << >>, reads_tau |-> << >>, writes_r |-> << >>]

\* variant: the guard of the cell is m > M
BlockAccess_GuardOffByOne(m, n) ==
    IF m > lengths[n + 1] THEN NoAccess
    ELSE [reads_j   |-> <<StartOf(lengths, n) + m>>,
          reads_tau |-> IF pshape0s[n + 1] > 1
                        THEN <<StartOf(pshape0s, n) + m>>
                        ELSE <<StartOf(pshape0s, n)>>,
          writes_r  |-> <<StartOf(lengths, n) + m>>]

\* the addresses the work-item (m, n) of the Block kernel reads in in_j and
\* in_tau and writes in in_r, in the order of the kernel text
BlockAccess(m, n) ==
    IF m >= lengths[n + 1] THEN NoAccess
    ELSE [reads_j   |-> <<StartOf(lengths, n) + m>>,
          reads_tau |-> IF pshape0s[n + 1] > 1
                        THEN <<StartOf(pshape0s, n) + m>>
                        ELSE <<StartOf(pshape0s, n)>>,
          writes_r  |-> <<StartOf(lengths, n) + m>>]

\* the work-item (m, n) of the Block kernel
BlockFn(m, n, out) ==
    LET a == BlockAccess(m, n)
    IN  IF a = NoAccess THEN out
        ELSE Store(out, a.writes_r[1],
                   Fragment(RdIn(a.reads_j[1]), RdParam(a.reads_tau[1])))

\* the work-items of the grid, in row-major order; no two of them touch the
\* same element
RECURSIVE BlockCells(_, _)
BlockCells(c, out) ==
    IF c = BlockGsize[1] * BlockGsize[2] THEN out
    ELSE BlockCells(c + 1,
                    BlockFn(c % BlockGsize[1], c \div BlockGsize[1], out))

\* --------------------------------------------------------------- PlanSpec
\* ragged shapes with nr rows of length 0..MaxLen, MaxTotal elements at most
Shapes(nr) == {l \in [1..nr -> 0..MaxLen] : Total(l) <= MaxTotal}

\* the parameter shapes _plan_template accepts for the row lengths lens
LegalParams(lens) ==
    {v \in Shapes(Len(lens)) : \A i \in 1..Len(lens) : v[i] \in {1, lens[i]}}

PlanInit ==
    /\ \/ \E nr \in 1..MaxRows :
            /\ lengths \in Shapes(nr)
            /\ oshape0s = lengths
            /\ pshape0s \in LegalParams(lengths)
       \/ \E nr \in 1..MaxVRows, no \in 0..MaxVRows, nv \in 0..MaxVRows :
            /\ lengths \in Shapes(nr)
            /\ oshape0s \in Shapes(no)
            /\ pshape0s \in Shapes(nv)
    /\ n_elements = 0
    /\ plan_pc = "call"
    /\ error = NoError
    /\ flat_out = [k \in 1..Total(lengths) |-> Unwritten]
    /\ block_out = [k \in 1..Total(lengths) |-> Unwritten]
    /\ flat_done = {}
    /\ flat_visits = << >>
    /\ block_done = FALSE
    /\ block_visits = << >>
    /\ fault = FALSE
    /\ DagOff
    /\ LifOff
    /\ DirectOff
    /\ KernelOff
    /\ QueueOff
    /\ RateOff
    /\ periods = << >>
    /\ n_prealloc = 1
    /\ sim = InitSim(0, 1)
    /\ entry = InitSim(0, 1)
    /\ pc = "idle"
    /\ N = 0
    /\ B = 0
    /\ b = 0
    /\ N0 = 0
    /\ undrained = 0

\* _plan_template up to the end of its assertions
PlanTemplate ==
    /\ plan_pc = "call"
    /\ error' = PlanTemplateCheck(lengths, oshape0s, pshape0s)
    /\ plan_pc' = IF error' = NoError THEN "checked" ELSE "raised"
    /\ UNCHANGED <<lengths, oshape0s, pshape0s, n_elements, flat_out,
                   flat_done, flat_visits, block_out, block_done,
                   block_visits, fault>>
    /\ UNCHANGED simVars
    /\ UNCHANGED dagVars
    /\ UNCHANGED extVars

\* the kernel text is rendered for n_elements = ne and compiled, and the
\* Plan returned
Build(ne) ==
    /\ plan_pc = "checked"
    /\ plan_pc' = "built"
    /\ n_elements' = ne
    /\ flat_visits' = [g \in 1..CeilDiv(Total(lengths), ne) |-> << >>]
    /\ UNCHANGED <<lengths, oshape0s, pshape0s, error, flat_out,
                   flat_done, block_out, block_done, block_visits, fault>>
    /\ UNCHANGED simVars
    /\ UNCHANGED dagVars
    /\ UNCHANGED extVars

\* one work-item of the Flattened plan runs; the work-items of a launch
\* run in any order
FlatWorkItem(gid) ==
    /\ plan_pc = "built"
    /\ gid \in (0..(FlatGsize - 1)) \ flat_done
    /\ LET w == FlatFn(gid, flat_out)
       IN  /\ flat_out' = w.out
           /\ fault' = (fault \/ w.fault)
           /\ flat_visits' = [flat_visits EXCEPT ![gid + 1] = w.visits]
    /\ flat_done' = flat_done \cup {gid}
    /\ UNCHANGED <<lengths, oshape0s, pshape0s, n_elements, plan_pc, error,
                   block_out, block_done, block_visits>>
    /\ UNCHANGED simVars
    /\ UNCHANGED dagVars
    /\ UNCHANGED extVars

FlatFinished == plan_pc = "built" /\ flat_done = 0..(FlatGsize - 1)

\* the Block plan (n_elements = 0) of the same batch runs on the same input
BlockKernel ==
    /\ plan_pc = "built"
    /\ FlatFinished
    /\ ~block_done
    /\ block_out' = BlockCells(0, block_out)
    /\ block_visits' = [c \in 1..(BlockGsize[1] * BlockGsize[2]) |->
                           BlockAccess((c - 1) % BlockGsize[1],
                                       (c - 1) \div BlockGsize[1])]
    /\ block_done' = TRUE
    /\ UNCHANGED <<lengths, oshape0s, pshape0s, n_elements, plan_pc, error,
                   flat_out, flat_done, flat_visits, fault>>
    /\ UNCHANGED simVars
    /\ UNCHANGED dagVars
    /\ UNCHANGED extVars

PlanNext ==
    \/ PlanTemplate
    \/ \E ne \in 1..MaxNElements : Build(ne)
    \/ \E gid \in 0..MaxTotal : FlatWorkItem(gid)
    \/ BlockKernel

PlanSpec == PlanInit /\ [][PlanNext]_vars

\* the element of tau that the claim prescribes for element m of row n
ParamFor(n, m) ==
    StartOf(pshape0s, n) + (IF pshape0s[n + 1] = 1 THEN 0 ELSE m)

\* C5: once both kernels have run over the batch, the Flattened and the
\* Block plan have written the same value to every output element.
C5_FlatEqualsBlock ==
    (FlatFinished /\ block_done) => flat_out = block_out

\* C6: in both regimes, every computed output element (n, m) was computed
\* with tau[n][0] when row n of tau has length 1, and with tau[n][m] when
\* it has the base row's length.
C6_ParameterBroadcast ==
    \A n \in 0..(NRows - 1) : \A m \in 0..(lengths[n + 1] - 1) :
        LET k == StartOf(lengths, n) + m + 1
        IN  /\ (plan_pc = "built" /\ flat_out[k] # Unwritten)
                  => flat_out[k][2] = ParamFor(n, m)
            /\ (plan_pc = "built" /\ block_out[k] # Unwritten)
                  => block_out[k][2] = ParamFor(n, m)

\* the (row, offset) of logical element e of the row-concatenated order
ElementAt(e) ==
    CHOOSE nm \in (0..(NRows - 1)) \X (0..MaxLen) :
        /\ nm[2] < lengths[nm[1] + 1]
        /\ StartOf(lengths, nm[1]) + nm[2] = e

\* C14: the Flattened plan launches ceil(total / n_elements) work-items,
\* and each work-item g that has run processed exactly the logical elements
\* g * n_elements .. min((g + 1) * n_elements, total) - 1, each at its own
\* (row, offset) with offset < the row's length, with no access outside the
\* buffers.
C14_FlatCoverage ==
    plan_pc = "built" =>
        /\ Len(flat_visits) = CeilDiv(Total(lengths), n_elements)
        /\ ~fault
        /\ \A g \in flat_done :
              LET first == g * n_elements
                  last  == Min2((g + 1) * n_elements, Total(lengths)) - 1
              IN  flat_visits[g + 1] =
                      [k \in 1..(last - first + 1) |-> ElementAt(first + k - 1)]

\* the addresses of row n of a packed ragged buffer with row lengths lens
RowOf(lens, n) == StartOf(lens, n)..(StartOf(lens, n + 1) - 1)

\* the cell (m, n) of the Block grid, in block_visits
BlockCell(m, n) == block_visits[n * BlockGsize[1] + m + 1]

\* the addresses in a sequence of accesses
Touched(accesses) == {accesses[i] : i \in 1..Len(accesses)}

\* C21: the Block launch has max(row length) * N cells; the cell (m, n)
\* with m < length(n) reads element m of row n of the input, one element of
\* row n of the parameter, and writes element m of row n of the output, and
\* nothing else; a cell with m >= length(n) reads and writes nothing; so
\* every element of every row is written by exactly one cell.
C21_BlockCoverage ==
    block_done =>
        /\ Len(block_visits) = MaxOf(lengths) * NRows
        /\ \A n \in 0..(NRows - 1) : \A m \in 0..(MaxOf(lengths) - 1) :
              LET a == BlockCell(m, n)
              IN  IF m < lengths[n + 1]
                  THEN /\ a.reads_j = <<StartOf(lengths, n) + m>>
                       /\ a.writes_r = <<StartOf(lengths, n) + m>>
                       /\ Len(a.reads_tau) = 1
                       /\ Touched(a.reads_j) \subseteq RowOf(lengths, n)
                       /\ Touched(a.writes_r) \subseteq RowOf(oshape0s, n)
                       /\ Touched(a.reads_tau) \subseteq RowOf(pshape0s, n)
                  ELSE a = NoAccess
        /\ \A k \in 0..(Total(lengths) - 1) :
              /\ Cardinality({c \in 1..Len(block_visits) :
                                 k \in Touched(block_visits[c].writes_r)}) = 1
              /\ block_out[k + 1] = Fragment(k, ParamFor(ElementAt(k)[1],
                                                        ElementAt(k)[2]))

\* the Block kernel has run over a ragged batch: a short row leaves a cell
\* of the grid idle, and tau has a scalar row and a vector row
C21_Witness ==
    /\ block_done
    /\ NRows >= 2
    /\ lengths[1] = 2
    /\ lengths[2] = 1
    /\ pshape0s[1] = 2
    /\ pshape0s[2] = 1
    /\ BlockCell(1, 1) = NoAccess
    /\ BlockCell(1, 0).writes_r = <<1>>

\* the batch is illegal: a row count differs from the base's, or a row of
\* tau is neither 1 nor as long as the base row
IllegalBatch ==
    \/ Len(oshape0s) # NRows
    \/ Len(pshape0s) # NRows
    \/ \E i \in 1..NRows : pshape0s[i] \notin {1, lengths[i]}

\* C10: for an illegal batch _plan_template raises and never gets to compile
\* a kernel or return a Plan; when the only fault is a row of tau of an
\* illegal length, the error names tau, the row index and both lengths.
C10_IllegalBatchRejected ==
    /\ (IllegalBatch /\ plan_pc # "call")
          => (plan_pc = "raised" /\ error.kind = "AssertionError")
    /\ (plan_pc # "call" /\ oshape0s = lengths /\ Len(pshape0s) = NRows
           /\ \E i \in 1..NRows : pshape0s[i] \notin {1, lengths[i]})
          => \E i \in 1..NRows :
                /\ pshape0s[i] \notin {1, lengths[i]}
                /\ error.msg = <<"tau", i - 1, lengths[i], pshape0s[i]>>

\* a batch whose second row of tau has an illegal length has been rejected
C10_Witness ==
    /\ plan_pc = "raised"
    /\ oshape0s = lengths
    /\ Len(pshape0s) = NRows
    /\ NRows >= 2
    /\ pshape0s[1] \in {1, lengths[1]}
    /\ pshape0s[2] \notin {1, lengths[2]}
    /\ error.msg = <<"tau", 1, lengths[2], pshape0s[2]>>

\* ------------------------------------------------------------- plan_lif
\* the kernel computes on reals; they are modelled as exact fractions
\* <<numerator, denominator>> in lowest terms with a positive denominator
Abs(x) == IF x < 0 THEN -x ELSE x

Sgn(x) == IF x < 0 THEN -1 ELSE IF x > 0 THEN 1 ELSE 0

RECURSIVE GCD(_, _)
GCD(x, y) == IF y = 0 THEN x ELSE GCD(y, x % y)

Norm(n, d) ==
    IF d = 0 THEN <<Sgn(n), 0>>
    ELSE LET g == GCD(Abs(n), Abs(d))
         IN  <<Sgn(n) * Sgn(d) * (Abs(n) \div g), Abs(d) \div g>>

R(n) == <<n, 1>>
RAdd(x, y) == Norm(x[1] * y[2] + y[1] * x[2], x[2] * y[2])
RSub(x, y) == Norm(x[1] * y[2] - y[1] * x[2], x[2] * y[2])
RMul(x, y) == Norm(x[1] * y[1], x[2] * y[2])
RDiv(x, y) == Norm(x[1] * y[2], x[2] * y[1])
RLt(x, y) == x[1] * y[2] < y[1] * x[2]
RGt(x, y) == RLt(y, x)
RLe(x, y) == ~RLt(y, x)

\* the model's dt, the unit of time
LifDt == R(1)

\* textconf = dict(upsample=upsample, dt=dt/upsample, dt_inv=upsample/dt,
\*                 V_threshold=1.)
Textconf(upsample) ==
    [upsample    |-> upsample,
     dt          |-> RDiv(LifDt, R(upsample)),
     dt_inv      |-> RDiv(R(upsample), LifDt),
     V_threshold |-> R(1)]

\* variant: the spike flag is cleared at the start of every sub-step
LifSubStep_ClearSpiked(r, j, tau, ref, c) ==
    LET dV == RMul(RDiv(c.dt, tau), RSub(j, r.v))
        v1 == RAdd(r.v, dV)
        v2 == IF RLt(v1, R(0)) \/ RGt(r.w, RMul(R(2), c.dt)) THEN R(0)
              ELSE IF RGt(r.w, c.dt)
                   THEN RMul(v1, RSub(R(1), RMul(RSub(r.w, c.dt), c.dt_inv)))
                   ELSE v1
        overshoot == RDiv(RMul(c.dt, RSub(v2, c.V_threshold)), dV)
    IN  IF RGt(v2, c.V_threshold)
        THEN LET w2 == RAdd(RSub(ref, overshoot), c.dt)
             IN  [v |-> R(0), w |-> w2, spiked |-> 1,
                  trace |-> Append(r.trace,
                      [v_in |-> r.v, w_in |-> r.w, dV |-> dV, crossed |-> TRUE,
                       overshoot |-> overshoot, v_out |-> R(0), w_out |-> w2])]
        ELSE LET w2 == RSub(r.w, c.dt)
             IN  [v |-> v2, w |-> w2, spiked |-> 0,
                  trace |-> Append(r.trace,
                      [v_in |-> r.v, w_in |-> r.w, dV |-> dV, crossed |-> FALSE,
                       overshoot |-> R(0), v_out |-> v2, w_out |-> w2])]

\* variant: after a spike the refractory time restarts at ref - overshoot
LifSubStep_NoSubDt(r, j, tau, ref, c) ==
    LET dV == RMul(RDiv(c.dt, tau), RSub(j, r.v))
        v1 == RAdd(r.v, dV)
        v2 == IF RLt(v1, R(0)) \/ RGt(r.w, RMul(R(2), c.dt)) THEN R(0)
              ELSE IF RGt(r.w, c.dt)
                   THEN RMul(v1, RSub(R(1), RMul(RSub(r.w, c.dt), c.dt_inv)))
                   ELSE v1
        overshoot == RDiv(RMul(c.dt, RSub(v2, c.V_threshold)), dV)
    IN  IF RGt(v2, c.V_threshold)
        THEN LET w2 == RSub(ref, overshoot)
             IN  [v |-> R(0), w |-> w2, spiked |-> 1,
                  trace |-> Append(r.trace,
                      [v_in |-> r.v, w_in |-> r.w, dV |-> dV, crossed |-> TRUE,
                       overshoot |-> overshoot, v_out |-> R(0), w_out |-> w2])]
        ELSE LET w2 == RSub(r.w, c.dt)
             IN  [v |-> v2, w |-> w2, spiked |-> r.spiked,
                  trace |-> Append(r.trace,
                      [v_in |-> r.v, w_in |-> r.w, dV |-> dV, crossed |-> FALSE,
                       overshoot |-> R(0), v_out |-> v2, w_out |-> w2])]

\* variant: a negative voltage is not clamped
LifSubStep_NoClamp(r, j, tau, ref, c) ==
    LET dV == RMul(RDiv(c.dt, tau), RSub(j, r.v))
        v1 == RAdd(r.v, dV)
        v2 == IF RGt(r.w, RMul(R(2), c.dt)) THEN R(0)
              ELSE IF RGt(r.w, c.dt)
                   THEN RMul(v1, RSub(R(1), RMul(RSub(r.w, c.dt), c.dt_inv)))
                   ELSE v1
        overshoot == RDiv(RMul(c.dt, RSub(v2, c.V_threshold)), dV)
    IN  IF RGt(v2, c.V_threshold)
        THEN LET w2 == RAdd(RSub(ref, overshoot), c.dt)
             IN  [v |-> R(0), w |-> w2, spiked |-> 1,
                  trace |-> Append(r.trace,
                      [v_in |-> r.v, w_in |-> r.w, dV |-> dV, crossed |-> TRUE,
                       overshoot |-> overshoot, v_out |-> R(0), w_out |-> w2])]
        ELSE LET w2 == RSub(r.w, c.dt)
             IN  [v |-> v2, w |-> w2, spiked |-> r.spiked,
                  trace |-> Append(r.trace,
                      [v_in |-> r.v, w_in |-> r.w, dV |-> dV, crossed |-> FALSE,
                       overshoot |-> R(0), v_out |-> v2, w_out |-> w2])]

\* one rendering of the body of "% for ii in range(upsample)": the
\* registers r = (v, w, spiked) after the sub-step, for the input j and the
\* parameters tau, ref; trace gets a record of what the sub-step did
LifSubStep(r, j, tau, ref, c) ==
    LET dV == RMul(RDiv(c.dt, tau), RSub(j, r.v))
        v1 == RAdd(r.v, dV)
        v2 == IF RLt(v1, R(0)) \/ RGt(r.w, RMul(R(2), c.dt)) THEN R(0)
              ELSE IF RGt(r.w, c.dt)
                   THEN RMul(v1, RSub(R(1), RMul(RSub(r.w, c.dt), c.dt_inv)))
                   ELSE v1
        overshoot == RDiv(RMul(c.dt, RSub(v2, c.V_threshold)), dV)
    IN  IF RGt(v2, c.V_threshold)
        THEN LET w2 == RAdd(RSub(ref, overshoot), c.dt)
             IN  [v |-> R(0), w |-> w2, spiked |-> 1,
                  trace |-> Append(r.trace,
                      [v_in |-> r.v, w_in |-> r.w, dV |-> dV, crossed |-> TRUE,
                       overshoot |-> overshoot, v_out |-> R(0), w_out |-> w2])]
        ELSE LET w2 == RSub(r.w, c.dt)
             IN  [v |-> v2, w |-> w2, spiked |-> r.spiked,
                  trace |-> Append(r.trace,
                      [v_in |-> r.v, w_in |-> r.w, dV |-> dV, crossed |-> FALSE,
                       overshoot |-> R(0), v_out |-> v2, w_out |-> w2])]

\* the upsample copies of the sub-step, one after the other
RECURSIVE LifSubSteps(_, _, _, _, _, _)
LifSubSteps(r, ii, j, tau, ref, c) ==
    IF ii = c.upsample THEN r
    ELSE LifSubSteps(LifSubStep(r, j, tau, ref, c), ii + 1, j, tau, ref, c)

\* variant: the state written back is the one left by the first sub-step
LifText_FirstSubStep(j, v, w, tau, ref, c) ==
    LET r == LifSubSteps([v |-> v, w |-> w, spiked |-> 0, trace |-> << >>],
                         0, j, tau, ref, c)
    IN  [ov |-> r.trace[1].v_out,
         ow |-> r.trace[1].w_out,
         os |-> IF r.spiked # 0 THEN R(1) ELSE R(0),
         trace |-> r.trace]

\* the fragment that plan_lif renders: spiked = 0; the sub-steps; ov = v;
\* ow = w; os = (spiked) ? 1.0f : 0.0f
LifText(j, v, w, tau, ref, c) ==
    LET r == LifSubSteps([v |-> v, w |-> w, spiked |-> 0, trace |-> << >>],
                         0, j, tau, ref, c)
    IN  [ov |-> r.v,
         ow |-> r.w,
         os |-> IF r.spiked # 0 THEN R(1) ELSE R(0),
         trace |-> r.trace]

\* ---------------------------------------------------------------- LifSpec
LifInit ==
    /\ \E tau \in 1..MaxTau, ref \in 0..MaxRef, upsample \in 1..MaxUpsample :
         lif = [tau |-> R(tau), ref |-> R(ref), upsample |-> upsample,
                J |-> R(0), V |-> R(0), W |-> R(0), S |-> R(0),
                trace |-> << >>, ticks |-> 0]
    /\ DagOff
    /\ PlanOff
    /\ periods = << >>
    /\ n_prealloc = 1
    /\ sim = InitSim(0, 1)
    /\ entry = InitSim(0, 1)
    /\ pc = "idle"
    /\ N = 0
    /\ B = 0
    /\ b = 0
    /\ N0 = 0
    /\ undrained = 0
    /\ DirectOff
    /\ KernelOff
    /\ QueueOff
    /\ RateOff

\* one launch of the plan of plan_SimLIF, for one neuron whose input is j:
\* plan_lif(queue, J, V, W, V, W, S, ref, tau, dt, ...) updates V and W in
\* place and writes S
LifTick(j) ==
    /\ (lif.ticks + 1) * lif.upsample <= MaxSubSteps
    /\ LET o == LifText(R(j), lif.V, lif.W, lif.tau, lif.ref,
                        Textconf(lif.upsample))
       IN  lif' = [lif EXCEPT !.J = R(j), !.V = o.ov, !.W = o.ow, !.S = o.os,
                              !.trace = o.trace, !.ticks = @ + 1]
    /\ UNCHANGED <<simVars, dagVars, planVars, direct, wg, hq, rt>>

LifNext == \E j \in (-1)..MaxJ : LifTick(j)

LifSpec == LifInit /\ [][LifNext]_vars

\* the sub-step size the kernel was rendered with
SubDt == Textconf(lif.upsample).dt

\* C12: after a tick, the spike output of the neuron is 1.0 when at least
\* one sub-step of the tick crossed the threshold and 0.0 otherwise.
C12_SpikeIndicator ==
    lif.ticks > 0 =>
        /\ lif.S \in {R(0), R(1)}
        /\ lif.S = R(1) <=> \E k \in 1..Len(lif.trace) : lif.trace[k].crossed

\* a tick of two sub-steps where the first one spiked and the last did not
C12_Witness ==
    /\ lif.ticks > 0
    /\ lif.upsample = 2
    /\ lif.trace[1].crossed
    /\ ~lif.trace[2].crossed
    /\ lif.S = R(1)

\* C19 as stated: with upsample >= 2, the spike output after a tick tells
\* whether the last sub-step of the tick spiked.
C19_LastSubStepSpike ==
    (lif.ticks > 0 /\ lif.upsample >= 2) =>
        (lif.S = R(1) <=> lif.trace[Len(lif.trace)].crossed)

\* C19 as amended: with upsample >= 2, the V and W written back after a
\* tick are those the last sub-step left, while the spike output is 1.0
\* for a spike in any sub-step, the last one or an earlier one alike, and
\* never more than 1.0 however many sub-steps spiked.
C19_LastStateAnySpike ==
    (lif.ticks > 0 /\ lif.upsample >= 2) =>
        LET last == lif.trace[Len(lif.trace)]
        IN  /\ lif.V = last.v_out
            /\ lif.W = last.w_out
            /\ \A k \in 1..Len(lif.trace) : lif.trace[k].crossed => lif.S = R(1)
            /\ (\A k \in 1..Len(lif.trace) : ~lif.trace[k].crossed)
                  => lif.S = R(0)

\* both sub-steps of a tick spiked, and one spike is reported
C19_Witness ==
    /\ lif.ticks > 0
    /\ lif.upsample = 2
    /\ lif.trace[1].crossed
    /\ lif.trace[2].crossed
    /\ lif.W = lif.trace[2].w_out
    /\ lif.W # lif.trace[1].w_out
    /\ lif.S = R(1)

\* C20: a sub-step entered with W > 2 * sub_dt leaves V = 0, emits no spike
\* and takes exactly sub_dt off W; a sub-step that emits a spike was entered
\* with W <= 2 * sub_dt, leaves V = 0 and sets W to
\* ref - overshoot + sub_dt, overshoot being sub_dt * (v - 1) / dV.
C20_RefractorySuppression ==
    \A k \in 1..Len(lif.trace) :
        LET t == lif.trace[k]
        IN  /\ RGt(t.w_in, RMul(R(2), SubDt)) =>
                  /\ t.v_out = R(0)
                  /\ ~t.crossed
                  /\ t.w_out = RSub(t.w_in, SubDt)
            /\ t.crossed =>
                  /\ RLe(t.w_in, RMul(R(2), SubDt))
                  /\ t.v_out = R(0)
                  /\ t.w_out = RAdd(RSub(lif.ref, t.overshoot), SubDt)

\* in one tick, a sub-step spiked and the next one was suppressed
C20_Witness ==
    /\ lif.ticks > 0
    /\ lif.upsample = 2
    /\ lif.trace[1].crossed
    /\ RGt(lif.trace[2].w_in, RMul(R(2), SubDt))
    /\ RGt(lif.J, R(1))
    /\ ~lif.trace[2].crossed

\* voltages and refractory times a sub-step may be entered with: below,
\* at and above the threshold, and on both sides of the sub-step size and
\* of twice the sub-step size
AnyV == {Norm(n, 2) : n \in (-2)..4}
AnyW == {RMul(Norm(n, 2), SubDt) : n \in (-2)..6}

InUnit(v) == RLe(R(0), v) /\ RLe(v, R(1))

\* C24: the voltage left by every sub-step of a tick, and the V written
\* back after the tick, lies between 0 and the threshold 1, and is 0 after
\* a sub-step that crossed the threshold; and whatever voltage and
\* refractory time a sub-step is entered with, for the neuron's tau and
\* ref and its input current, the voltage it leaves lies between 0 and 1.
C24_VoltageBounded ==
    /\ lif.ticks > 0 =>
          /\ InUnit(lif.V)
          /\ \A k \in 1..Len(lif.trace) :
                /\ InUnit(lif.trace[k].v_out)
                /\ lif.trace[k].crossed => lif.trace[k].v_out = R(0)
                /\ RLt(RAdd(lif.trace[k].v_in, lif.trace[k].dV), R(0))
                      => lif.trace[k].v_out = R(0)
    /\ \A v0 \in AnyV : \A w0 \in AnyW :
          InUnit(LifSubStep([v |-> v0, w |-> w0, spiked |-> 0,
                             trace |-> << >>],
                            lif.J, lif.tau, lif.ref,
                            Textconf(lif.upsample)).v)

\* a sub-step entered in the last part of the refractory period (between
\* one and two sub-step sizes left) scaled the voltage down to a value
\* strictly between 0 and what the integration had given, and the V written
\* back is positive and below the threshold
C24_Witness ==
    /\ lif.ticks > 0
    /\ RGt(lif.V, R(0))
    /\ RLt(lif.V, R(1))
    /\ \E k \in 1..Len(lif.trace) :
          /\ RGt(lif.trace[k].w_in, SubDt)
          /\ RLe(lif.trace[k].w_in, RMul(R(2), SubDt))
          /\ RGt(lif.trace[k].v_out, R(0))
          /\ RLt(lif.trace[k].v_out,
                 RAdd(lif.trace[k].v_in, lif.trace[k].dV))

\* -------------------------------------------------------- plan_lif_rate
RECURSIVE Pow10(_)
Pow10(k) == IF k = 0 THEN 1 ELSE 10 * Pow10(k - 1)

\* the decimal exponent of x > 0: the e with 10^e <= x < 10^(e + 1)
RECURSIVE Exp10(_, _)
Exp10(x, e) ==
    IF RLt(x, R(1)) THEN Exp10(RMul(x, R(10)), e - 1)
    ELSE IF RLe(R(10), x) THEN Exp10(RDiv(x, R(10)), e + 1)
    ELSE e

\* n / d rounded to the nearest integer, ties to even (n >= 0, d > 0)
RoundHalfEven(n, d) ==
    LET q   == n \div d
        rem == n - q * d
    IN  IF 2 * rem > d THEN q + 1
        ELSE IF 2 * rem < d THEN q
        ELSE q + (q % 2)

\* "%(dt)e" % dict(dt=dt): the value of the literal that Python writes for
\* x > 0, one digit before the point and six after it
FormatE(x) ==
    LET e == Exp10(x, 0)
    IN  IF e <= 6
        THEN Norm(RoundHalfEven(x[1] * Pow10(6 - e), x[2]), Pow10(6 - e))
        ELSE Norm(RoundHalfEven(x[1], x[2] * Pow10(e - 6)) * Pow10(e - 6), 1)

\* max(x, y)
RMax(x, y) == IF RLt(x, y) THEN y ELSE x

\* the real c / (ref + tau * log1p(q)) for tau > 0, ref >= 0 and q > 0;
\* log1p is not a rational function, so the value is kept as this term:
\* two terms with the same ref, tau and q are equal as reals exactly when
\* their numerators are. For q = +inf (1.0/0) log1p(q) is +inf, so is the
\* denominator, and the quotient is 0.
RateTerm(c, ref, tau, q) ==
    IF q[2] = 0 THEN R(0)
    ELSE [num |-> c, ref |-> ref, tau |-> tau, log1p_of |-> q]

\* the fragment of plan_lif_rate, for the literal dt_text:
\*     j = max(j - 1, 0.0f);
\*     r = <dt_text> / (ref + tau * log1p(1.0/j));
LifRateText(j, tau, ref, dt_text) ==
    LET j1 == RMax(RSub(j, R(1)), R(0))
    IN  RateTerm(dt_text, ref, tau, RDiv(R(1), j1))

\* the buffers plan_lif_rate hands to _plan_template
LifRateBuffers ==
    [inputs |-> {"j"}, outputs |-> {"r"}, parameters |-> {"tau", "ref"}]

\* --------------------------------------------------------------- RateSpec
\* plan_SimLIFRate for one operator, a row of n >= 1 neurons that share
\* tau_rc and tau_ref, built for the time step dt = 1/k
RateInit ==
    /\ \E tau \in 1..MaxTau, ref \in 0..MaxRef, k \in 1..MaxDtInv,
          n \in 1..MaxRateLen :
         rt = [dt |-> Norm(1, k), dt_text |-> FormatE(Norm(1, k)),
               buffers |-> LifRateBuffers,
               tau |-> R(tau), ref |-> R(ref),
               J |-> [e \in 1..n |-> R(0)], R |-> [e \in 1..n |-> R(0)],
               ran |-> FALSE]
    /\ DagOff
    /\ PlanOff
    /\ LifOff
    /\ DirectOff
    /\ KernelOff
    /\ QueueOff
    /\ periods = << >>
    /\ n_prealloc = 1
    /\ sim = InitSim(0, 1)
    /\ entry = InitSim(0, 1)
    /\ pc = "idle"
    /\ N = 0
    /\ B = 0
    /\ b = 0
    /\ N0 = 0
    /\ undrained = 0

\* one tick: the input currents of the row have become js, and the plan
\* runs: every element reads its j, the row's tau and ref, and writes its r
RateLaunch(js) ==
    /\ DOMAIN js = DOMAIN rt.J
    /\ rt' = [rt EXCEPT
                 !.J = js,
                 !.R = [e \in DOMAIN js |->
                          LifRateText(js[e], rt.tau, rt.ref, rt.dt_text)],
                 !.ran = TRUE]
    /\ UNCHANGED <<simVars, dagVars, planVars, lif, direct, wg, hq>>

RateNext ==
    \E js \in UNION {[1..n -> {R(j) : j \in (-1)..MaxJ}] : n \in 1..MaxRateLen} :
        RateLaunch(js)

RateSpec == RateInit /\ [][RateNext]_vars

\* C25: after a launch of the rate plan, every element of the output holds
\* 1 / (ref + tau*log1p(1/max(J - 1, 0))) for that element's J and the
\* row's tau and ref (0 when J <= 1); the plan has no voltage or refractory
\* buffer among its inputs and parameters, and r is its only output.
C25_RateFormula ==
    /\ rt.ran =>
          \A e \in DOMAIN rt.R :
              rt.R[e] = RateTerm(R(1), rt.ref, rt.tau,
                                 RDiv(R(1), RMax(RSub(rt.J[e], R(1)), R(0))))
    /\ rt.buffers.outputs = {"r"}
    /\ (rt.buffers.inputs \cup rt.buffers.parameters) \cap {"v", "w"} = {}

\* -------------------------------------------------------- plan_SimDirect
\* unique_ops: the distinct functions of the operators, in the order of
\* their first occurrence
RECURSIVE UniqueFns(_)
UniqueFns(ops) ==
    IF ops = << >> THEN << >>
    ELSE LET front == UniqueFns(SubSeq(ops, 1, Len(ops) - 1))
             fn    == ops[Len(ops)].fn
         IN  IF \E k \in 1..Len(front) : front[k] = fn THEN front
             ELSE Append(front, fn)

\* fn_name = fn.__name__; if fn_name == "<lambda>": fn_name += "%d" %
\* len(plans); function 1 is a lambda, the others are named
FnName(fn, n_plans) ==
    IF fn = 1 THEN <<"<lambda>", n_plans>> ELSE <<"fn", fn>>

\* the assertions on the shapes and strides of the signals of fn
ShapesOK(ops, fn) ==
    \A k \in 1..Len(ops) : ops[k].fn = fn => ops[k].vector

\* what OCL_Function and plan_direct do for a function: "ok", or the class
\* of the exception raised; the first two are what a failed translation
\* raises, RuntimeError is a kernel that does not build
TranslationFailures == {"NotImplementedError", "AssertionError"}
Outcomes == {"ok", "RuntimeError"} \cup TranslationFailures

\* variant: a function that cannot be translated is left without a plan
TryPlan_SkipOnFailure(fn, fn_name, outcome, ocl_only) ==
    IF outcome = "ok"
    THEN [raised |-> "", warning |-> << >>,
          plan |-> <<[kind |-> "cl_direct", fn |-> fn, tag |-> fn_name]>>]
    ELSE IF outcome \notin {"NotImplementedError", "AssertionError"}
         THEN [raised |-> outcome, warning |-> << >>, plan |-> << >>]
    ELSE IF ocl_only
         THEN [raised |-> outcome, warning |-> << >>, plan |-> << >>]
    ELSE [raised |-> "",
          warning |-> <<[fn_name |-> fn_name, reason |-> outcome]>>,
          plan |-> << >>]

\* the try statement: try: ... plans.append(plan)
\* except (NotImplementedError, AssertionError), e: ...
TryPlan(fn, fn_name, outcome, ocl_only) ==
    IF outcome = "ok"
    THEN [raised |-> "", warning |-> << >>,
          plan |-> <<[kind |-> "cl_direct", fn |-> fn, tag |-> fn_name]>>]
    ELSE IF outcome \notin {"NotImplementedError", "AssertionError"}
         THEN [raised |-> outcome, warning |-> << >>, plan |-> << >>]
    ELSE IF ocl_only
         THEN [raised |-> outcome, warning |-> << >>, plan |-> << >>]
    ELSE [raised |-> "",
          warning |-> <<[fn_name |-> fn_name, reason |-> outcome]>>,
          plan |-> <<[kind |-> "PythonPlan", fn |-> fn, tag |-> fn_name]>>]

DirectInit ==
    /\ \E n \in 0..MaxOps :
         \E ops \in [1..n -> [fn : 1..MaxFns, vector : BOOLEAN]] :
           \E outcome \in [1..MaxFns -> Outcomes], ocl_only \in BOOLEAN :
             direct = [dpc |-> "loop", ops |-> ops, outcome |-> outcome,
                       ocl_only |-> ocl_only, unique_ops |-> UniqueFns(ops),
                       k |-> 1, plans |-> << >>, warnings |-> << >>,
                       raised |-> "", returned |-> "none"]
    /\ DagOff
    /\ PlanOff
    /\ LifOff
    /\ KernelOff
    /\ QueueOff
    /\ RateOff
    /\ periods = << >>
    /\ n_prealloc = 1
    /\ sim = InitSim(0, 1)
    /\ entry = InitSim(0, 1)
    /\ pc = "idle"
    /\ N = 0
    /\ B = 0
    /\ b = 0
    /\ N0 = 0
    /\ undrained = 0

\* one iteration of "for fn, signals in unique_ops.items()"
DirectFn ==
    /\ direct.dpc = "loop"
    /\ direct.k <= Len(direct.unique_ops)
    /\ LET fn == direct.unique_ops[direct.k]
           fn_name == FnName(fn, Len(direct.plans))
           t == TryPlan(fn, fn_name, direct.outcome[fn], direct.ocl_only)
       IN  IF ~ShapesOK(direct.ops, fn)
           THEN direct' = [direct EXCEPT !.dpc = "raised",
                                         !.raised = "AssertionError"]
           ELSE IF t.raised # ""
           THEN direct' = [direct EXCEPT !.dpc = "raised",
                                         !.raised = t.raised]
           ELSE direct' = [direct EXCEPT !.plans = @ \o t.plan,
                                         !.warnings = @ \o t.warning,
                                         !.k = @ + 1]
    /\ UNCHANGED <<simVars, dagVars, planVars, lif, wg, hq, rt>>

\* return plans
DirectReturn ==
    /\ direct.dpc = "loop"
    /\ direct.k > Len(direct.unique_ops)
    /\ direct' = [direct EXCEPT !.dpc = "returned", !.returned = direct.plans]
    /\ UNCHANGED <<simVars, dagVars, planVars, lif, wg, hq, rt>>

DirectNext == DirectFn \/ DirectReturn

DirectSpec == DirectInit /\ [][DirectNext]_vars

\* the functions whose translation fails
FailingFns ==
    {direct.unique_ops[k] : k \in
        {i \in 1..Len(direct.unique_ops) :
            direct.outcome[direct.unique_ops[i]] \in TranslationFailures}}

\* nothing but failed translations stands in the way of the plans: the
\* signals pass the assertions and every translated kernel builds
OnlyTranslationFails ==
    \A k \in 1..Len(direct.unique_ops) :
        /\ ShapesOK(direct.ops, direct.unique_ops[k])
        /\ direct.outcome[direct.unique_ops[k]] # "RuntimeError"

\* C11: (non-strict) a function whose translation fails gets a PythonPlan
\* in its place and a warning naming it and the reason, every other
\* function keeps its OpenCL plan, plan_SimDirect does not raise and the
\* list it returns has exactly one plan per distinct function, in order;
\* (strict) with a failing function plan_SimDirect raises that failure and
\* returns no list.
C11_DirectFallback ==
    OnlyTranslationFails =>
        /\ ~direct.ocl_only =>
              /\ direct.dpc # "raised"
              /\ \A k \in 1..Len(direct.plans) :
                    LET fn == direct.unique_ops[k]
                    IN  /\ direct.plans[k].fn = fn
                        /\ direct.plans[k].kind =
                              IF fn \in FailingFns THEN "PythonPlan"
                              ELSE "cl_direct"
                        /\ fn \in FailingFns =>
                              \E i \in 1..Len(direct.warnings) :
                                  direct.warnings[i] =
                                      [fn_name |-> direct.plans[k].tag,
                                       reason  |-> direct.outcome[fn]]
              /\ Len(direct.warnings) =
                    Cardinality({k \in 1..Len(direct.plans) :
                                    direct.unique_ops[k] \in FailingFns})
              /\ direct.dpc = "returned" =>
                    /\ direct.returned = direct.plans
                    /\ Len(direct.returned) = Len(direct.unique_ops)
        /\ (direct.ocl_only /\ FailingFns # {}) =>
              /\ direct.dpc # "returned"
              /\ direct.returned = "none"
              /\ direct.dpc = "raised" => direct.raised \in TranslationFailures
        /\ (direct.ocl_only /\ FailingFns = {} /\ direct.dpc = "returned") =>
              Len(direct.returned) = Len(direct.unique_ops)

\* non-strict: two functions, the first one's translation failed and the
\* second one's did not, and the list of two plans has been returned
C11_Witness ==
    /\ direct.dpc = "returned"
    /\ ~direct.ocl_only
    /\ Len(direct.ops) = 3
    /\ Len(direct.returned) = 2
    /\ direct.returned[1].kind = "PythonPlan"
    /\ direct.returned[2].kind = "cl_direct"
    /\ Len(direct.warnings) = 1

\* ------------------------------------ the probe kernel, work-item by
\* work-item.  gsize = (max_len, N), lsize = (max_len, 1): the work-group of
\* row n has max_len work-items, get_global_id(0) = 0 .. max_len - 1
NumWI == Len(wg.items)

\* positions of a work-item that are at or after its barrier
AtOrPastBarrier == {"wait", "update", "update2", "done"}

\* variant: the kernel has no barrier
BarrierOpen_NoBarrier(g) == TRUE

\* barrier(CLK_LOCAL_MEM_FENCE): a work-item leaves the barrier once every
\* work-item of the group has arrived at that same barrier; work-items
\* waiting at different barriers wait forever
BarrierOpen(g) ==
    \A h \in 1..NumWI :
        /\ wg.items[h].pc \in AtOrPastBarrier
        /\ wg.items[h].branch = wg.items[g].branch

\* the signal X[n] during launch t, and a ring slot np.zeros left unwritten
XAt(t, ii) == <<t, ii>>
ZeroRow(d) == [ii \in 1..d |-> <<0, 0>>]

KInit ==
    /\ \E p \in 0..MaxKPeriod, d \in 1..MaxDims, w \in 1..MaxWI :
         wg = [period |-> p, n_dims |-> d,
               countdown |-> 0, bufposition |-> 0,
               Y |-> [k \in 1..MaxKTicks |-> ZeroRow(d)],
               tick |-> 0,
               items |-> [g \in 1..w |->
                            [pc |-> "done", countdown |-> 0, bufpos |-> 0,
                             ii |-> 0, branch |-> "none"]],
               pre |-> [countdown |-> 0, bufposition |-> 0,
                        Y |-> [k \in 1..MaxKTicks |-> ZeroRow(d)]],
               writes |-> << >>]
    /\ DagOff
    /\ PlanOff
    /\ LifOff
    /\ DirectOff
    /\ QueueOff
    /\ RateOff
    /\ periods = << >>
    /\ n_prealloc = 1
    /\ sim = InitSim(0, 1)
    /\ entry = InitSim(0, 1)
    /\ pc = "idle"
    /\ N = 0
    /\ B = 0
    /\ b = 0
    /\ N0 = 0
    /\ undrained = 0

KFrame == UNCHANGED <<simVars, dagVars, planVars, lif, direct, hq, rt>>

\* the next launch of the kernel: the launches of one queue run one after
\* the other
KLaunch ==
    /\ wg.tick < MaxKTicks
    /\ \A g \in 1..NumWI : wg.items[g].pc = "done"
    /\ wg' = [wg EXCEPT
                 !.tick = @ + 1,
                 !.items = [g \in 1..NumWI |->
                              [pc |-> "start", countdown |-> 0, bufpos |-> 0,
                               ii |-> 0, branch |-> "none"]],
                 !.pre = [countdown |-> wg.countdown,
                          bufposition |-> wg.bufposition,
                          Y |-> wg.Y],
                 !.writes = << >>]
    /\ KFrame

\* const int countdown = countdowns[n]; if (countdown == 0) ... else ...
KReadCountdown(g) ==
    /\ wg.items[g].pc = "start"
    /\ wg' = [wg EXCEPT
                 !.items[g].countdown = wg.countdown,
                 !.items[g].branch = IF wg.countdown = 0 THEN "sample"
                                     ELSE "skip",
                 !.items[g].pc = IF wg.countdown = 0 THEN "bufpos"
                                 ELSE "barrier"]
    /\ KFrame

\* const int bufpos = bufpositions[n]; int ii = get_global_id(0)
KReadBufpos(g) ==
    /\ wg.items[g].pc = "bufpos"
    /\ wg' = [wg EXCEPT
                 !.items[g].bufpos = wg.bufposition,
                 !.items[g].ii = g - 1,
                 !.items[g].pc = "copy"]
    /\ KFrame

\* for (...; ii < n_dims; ii += get_global_size(0)) y[ii] = x[ii];
\* y = Ydata + Ystarts[n] + bufpos * n_dims
KCopy(g) ==
    /\ wg.items[g].pc = "copy"
    /\ LET it == wg.items[g]
       IN  IF it.ii < wg.n_dims
           THEN wg' = [wg EXCEPT
                         !.Y = IF it.bufpos >= 0 /\ it.bufpos < Len(wg.Y)
                               THEN [@ EXCEPT ![it.bufpos + 1][it.ii + 1] =
                                                  XAt(wg.tick, it.ii)]
                               ELSE @,
                         !.items[g].ii = it.ii + NumWI]
           ELSE wg' = [wg EXCEPT !.items[g].pc = "barrier"]
    /\ KFrame

\* the work-item arrives at the barrier of its branch
KArrive(g) ==
    /\ wg.items[g].pc = "barrier"
    /\ wg' = [wg EXCEPT !.items[g].pc = "wait"]
    /\ KFrame

\* the barrier lets the work-item go; if (get_global_id(0) == 0) { ... }
KPass(g) ==
    /\ wg.items[g].pc = "wait"
    /\ BarrierOpen(g)
    /\ wg' = [wg EXCEPT !.items[g].pc = IF g = 1 THEN "update" ELSE "done"]
    /\ KFrame

\* whether every work-item is at or past its barrier (for the record of
\* the write)
AllArrived == \A h \in 1..NumWI : wg.items[h].pc \in AtOrPastBarrier

\* countdowns[n] = periods[n] - 1, or countdowns[n] = countdown - 1
KUpdateCountdown(g) ==
    /\ wg.items[g].pc = "update"
    /\ LET it == wg.items[g]
       IN  wg' = [wg EXCEPT
                    !.countdown = IF it.branch = "sample" THEN wg.period - 1
                                  ELSE it.countdown - 1,
                    !.items[g].pc = IF it.branch = "sample" THEN "update2"
                                    ELSE "done",
                    !.writes = Append(@, [gid |-> g - 1, to |-> "countdowns",
                                          arrived |-> AllArrived])]
    /\ KFrame

\* bufpositions[n] = bufpos + 1
KUpdateBufpos(g) ==
    /\ wg.items[g].pc = "update2"
    /\ wg' = [wg EXCEPT
                 !.bufposition = wg.items[g].bufpos + 1,
                 !.items[g].pc = "done",
                 !.writes = Append(@, [gid |-> g - 1, to |-> "bufpositions",
                                       arrived |-> AllArrived])]
    /\ KFrame

KNext ==
    \/ KLaunch
    \/ \E g \in 1..NumWI : KReadCountdown(g)
    \/ \E g \in 1..NumWI : KReadBufpos(g)
    \/ \E g \in 1..NumWI : KCopy(g)
    \/ \E g \in 1..NumWI : KArrive(g)
    \/ \E g \in 1..NumWI : KPass(g)
    \/ \E g \in 1..NumWI : KUpdateCountdown(g)
    \/ \E g \in 1..NumWI : KUpdateBufpos(g)

KernelSpec == KInit /\ [][KNext]_vars

\* the work-item can take a step
CanStep(g) ==
    \/ wg.items[g].pc \in {"start", "bufpos", "copy", "barrier",
                            "update", "update2"}
    \/ wg.items[g].pc = "wait" /\ BarrierOpen(g)

KLaunchDone == \A g \in 1..NumWI : wg.items[g].pc = "done"

\* C16: in every launch and under every interleaving of the work-items of
\* the row, (1) each work-item read the countdown and the bufposition the
\* row had before the launch, so (2) all take the same branch, (3) the
\* launch never gets stuck at a barrier, (4) every copy goes to the slot
\* the row's bufposition named before the launch, (5) countdowns[n] and
\* bufpositions[n] are each written at most once, by work-item 0, when
\* every work-item is at or past the barrier, and (6) when the launch is
\* over they have been written exactly as a single work-item would have.
C16_IntraRowSync ==
    wg.tick > 0 =>
        /\ \A g \in 1..NumWI :
              LET it == wg.items[g]
              IN  /\ it.pc # "start" => it.countdown = wg.pre.countdown
                  /\ it.pc # "start" =>
                        it.branch = IF wg.pre.countdown = 0 THEN "sample"
                                    ELSE "skip"
                  /\ (it.pc \notin {"start", "bufpos"} /\ it.branch = "sample")
                        => it.bufpos = wg.pre.bufposition
        /\ ~KLaunchDone => \E g \in 1..NumWI : CanStep(g)
        /\ \A k \in 1..MaxKTicks :
              k # wg.pre.bufposition + 1 => wg.Y[k] = wg.pre.Y[k]
        /\ \A k \in 1..Len(wg.writes) :
              /\ wg.writes[k].gid = 0
              /\ wg.writes[k].arrived
              /\ \A l \in 1..Len(wg.writes) :
                    l # k => wg.writes[l].to # wg.writes[k].to
        /\ KLaunchDone =>
              IF wg.pre.countdown = 0
              THEN /\ wg.countdown = wg.period - 1
                   /\ wg.bufposition = wg.pre.bufposition + 1
                   /\ wg.Y[wg.pre.bufposition + 1] =
                         [ii \in 1..wg.n_dims |-> XAt(wg.tick, ii - 1)]
                   /\ Len(wg.writes) = 2
              ELSE /\ wg.countdown = wg.pre.countdown - 1
                   /\ wg.bufposition = wg.pre.bufposition
                   /\ wg.Y = wg.pre.Y
                   /\ Len(wg.writes) = 1

\* the second launch sampled with two work-items, each of which copied a
\* dimension of the signal into slot 1
C16_Witness ==
    /\ wg.tick = 2
    /\ KLaunchDone
    /\ NumWI = 2
    /\ wg.n_dims = 2
    /\ wg.period = 1
    /\ wg.bufposition = 2
    /\ wg.Y[2] = <<XAt(2, 0), XAt(2, 1)>>

\* --------------------------------------------- the host and the queue
\* variant: finish returns without waiting for the queue
FinishDone_NoWait == TRUE

\* self.queue.finish(): returns once the device has run every command
\* issued before it
FinishDone == hq.queue = << >>

QInit ==
    /\ \E np \in 0..MaxProbes :
         \E dts \in [1..np -> 0..MaxProbeDt] :
           \E npre \in 1..MaxPrealloc :
             /\ periods = Periods(dts)
             /\ n_prealloc = npre
             /\ sim = InitSim(np, npre)
             /\ entry = InitSim(np, npre)
    /\ pc = "idle"
    /\ N = 0
    /\ B = 0
    /\ b = 0
    /\ N0 = 0
    /\ undrained = 0
    /\ hq = [queue |-> << >>,       \* commands issued and not yet run
             issued |-> 0,          \* iterations issued so far
             synced |-> TRUE,       \* no launch issued since the last finish
             bufpositions |-> << >>,\* the local bufpositions of the host
             i |-> 0,               \* the loop index of drain_probe_buffers
             at_get |-> InitSim(0, 1), \* the simulator at the last .get()
             last_read |-> [what |-> "none", pending |-> 0, synced |-> TRUE],
                                    \* the last host read of device data
             early_read |-> FALSE,  \* some host read found a command pending
                                    \* or a launch issued since the last finish
             most_pending |-> 0]    \* longest the queue has been
    /\ DagOff
    /\ PlanOff
    /\ LifOff
    /\ DirectOff
    /\ KernelOff
    /\ RateOff

QFrame ==
    UNCHANGED <<periods, n_prealloc, dagVars, planVars, lif, direct, wg, rt>>

\* the record of a host read of device data
HostRead(what) ==
    [what |-> what, pending |-> Len(hq.queue), synced |-> hq.synced]

EarlyRead == hq.early_read \/ hq.queue # << >> \/ ~hq.synced

\* def run_steps(self, N): has_probes = hasattr(self, '_cl_probe_plan')
QRunSteps(n) ==
    /\ pc = "idle"
    /\ ~sim.raised
    /\ hq.issued + n <= MaxSteps
    /\ pc' = IF has_probes THEN "precond" ELSE "while"
    /\ N' = n
    /\ N0' = n
    /\ entry' = sim
    /\ UNCHANGED <<sim, B, b, undrained, hq>>
    /\ QFrame

\* bufpositions = self._cl_probe_plan.cl_bufpositions.get()
\* assert np.all(bufpositions == 0)
QPrecondition ==
    /\ pc = "precond"
    /\ hq' = [hq EXCEPT !.last_read = HostRead("bufpositions"),
                        !.early_read = EarlyRead,
                        !.bufpositions = sim.bufpositions]
    /\ IF \E i \in 1..NumProbes : sim.bufpositions[i] # 0
       THEN /\ sim' = [sim EXCEPT !.raised = TRUE]
            /\ pc' = "idle"
       ELSE /\ pc' = "while"
            /\ UNCHANGED sim
    /\ UNCHANGED <<N, B, b, N0, entry, undrained>>
    /\ QFrame

\* while N: B = min(N, self._max_steps_between_probes) if has_probes else N
QWhileBody ==
    /\ pc = "while"
    /\ N # 0
    /\ B' = IF has_probes THEN Min2(N, MaxStepsBetweenProbes) ELSE N
    /\ b' = B'
    /\ pc' = "call_n_times"
    /\ UNCHANGED <<sim, N, N0, entry, undrained, hq>>
    /\ QFrame

\* self._dag.call_n_times(B): the launches of one iteration are issued to
\* the queue; the host does not wait for them
QIssue ==
    /\ pc = "call_n_times"
    /\ b > 0
    /\ b' = b - 1
    /\ undrained' = undrained + 1
    /\ hq' = [hq EXCEPT !.queue = Append(@, "iteration"),
                        !.issued = @ + 1,
                        !.synced = FALSE,
                        !.most_pending = IF Len(hq.queue) + 1 > @
                                         THEN Len(hq.queue) + 1 ELSE @]
    /\ UNCHANGED <<sim, pc, N, B, N0, entry>>
    /\ QFrame

\* call_n_times returns: if has_probes: self.drain_probe_buffers();
\* otherwise N -= B
QCallReturns ==
    /\ pc = "call_n_times"
    /\ b = 0
    /\ IF has_probes
       THEN pc' = "drain_finish" /\ UNCHANGED N
       ELSE pc' = "while" /\ N' = N - B
    /\ UNCHANGED <<sim, B, b, N0, entry, undrained, hq>>
    /\ QFrame

\* drain_probe_buffers: self.queue.finish()
QFinishFirst ==
    /\ pc = "drain_finish"
    /\ FinishDone
    /\ pc' = "drain_get"
    /\ hq' = [hq EXCEPT !.synced = TRUE]
    /\ UNCHANGED <<sim, N, B, b, N0, entry, undrained>>
    /\ QFrame

\* bufpositions = plan.cl_bufpositions.get(): the host copies what the
\* device memory holds
QGet ==
    /\ pc = "drain_get"
    /\ pc' = "drain_loop"
    /\ hq' = [hq EXCEPT !.last_read = HostRead("bufpositions"),
                        !.early_read = EarlyRead,
                        !.bufpositions = sim.bufpositions,
                        !.at_get = sim,
                        !.i = 1]
    /\ UNCHANGED <<sim, N, B, b, N0, entry, undrained>>
    /\ QFrame

\* for i, probe in enumerate(self.model.probes): n_buffered = bufpositions[i]
\* if n_buffered: self.probe_outputs[probe].extend(plan.Y[i][:n_buffered])
QExtend ==
    /\ pc = "drain_loop"
    /\ hq.i <= NumProbes
    /\ LET n_buffered == hq.bufpositions[hq.i]
       IN  IF n_buffered # 0
           THEN /\ sim' = [sim EXCEPT !.probe_outputs[hq.i] =
                               @ \o Take(YRow(sim, hq.i), n_buffered)]
                /\ hq' = [hq EXCEPT !.last_read = HostRead("Y"),
                                    !.early_read = EarlyRead,
                                    !.i = @ + 1]
           ELSE /\ hq' = [hq EXCEPT !.i = @ + 1]
                /\ UNCHANGED sim
    /\ UNCHANGED <<pc, N, B, b, N0, entry, undrained>>
    /\ QFrame

\* plan.cl_bufpositions.fill(0): issued to the queue after the loop
QFill ==
    /\ pc = "drain_loop"
    /\ hq.i > NumProbes
    /\ pc' = "drain_finish2"
    /\ hq' = [hq EXCEPT !.queue = Append(@, "fill")]
    /\ UNCHANGED <<sim, N, B, b, N0, entry, undrained>>
    /\ QFrame

\* self.queue.finish(), the end of drain_probe_buffers;  N -= B
QFinishLast ==
    /\ pc = "drain_finish2"
    /\ FinishDone
    /\ pc' = "while"
    /\ N' = N - B
    /\ undrained' = 0
    /\ hq' = [hq EXCEPT !.synced = TRUE]
    /\ UNCHANGED <<sim, B, b, N0, entry>>
    /\ QFrame

\* the while loop ends and run_steps returns
QReturn ==
    /\ pc = "while"
    /\ N = 0
    /\ pc' = "idle"
    /\ UNCHANGED <<sim, N, B, b, N0, entry, undrained, hq>>
    /\ QFrame

\* the device runs the oldest command of the queue
DeviceRuns ==
    /\ hq.queue # << >>
    /\ IF Head(hq.queue) = "iteration"
       THEN \E race \in BOOLEAN : sim' = DagIteration(sim, race)
       ELSE sim' = [sim EXCEPT
                       !.bufpositions = [i \in 1..Len(sim.countdowns) |-> 0]]
    /\ hq' = [hq EXCEPT !.queue = Tail(@)]
    /\ UNCHANGED <<pc, N, B, b, N0, entry, undrained>>
    /\ QFrame

QNext ==
    \/ \E n \in 0..MaxN : QRunSteps(n)
    \/ QPrecondition
    \/ QWhileBody
    \/ QIssue
    \/ QCallReturns
    \/ QFinishFirst
    \/ QGet
    \/ QExtend
    \/ QFill
    \/ QFinishLast
    \/ QReturn
    \/ DeviceRuns

QueueSpec == QInit /\ [][QNext]_vars

\* C17: every host read of bufpositions or of the ring, in the precondition
\* check of run_steps and in drain_probe_buffers, finds no issued command
\* pending and follows a finish with no launch issued in between; and when
\* the fill(0) of bufpositions is issued, every probe's log has received
\* the rows that were buffered for it.
C17_ReadsAfterFinish ==
    /\ ~hq.early_read
    /\ hq.last_read.pending = 0 /\ hq.last_read.synced
    /\ pc \in {"precond", "drain_get", "drain_loop"} =>
          (hq.queue = << >> /\ hq.synced)
    /\ pc = "drain_loop" => sim.bufpositions = hq.bufpositions
    /\ (\E k \in 1..Len(hq.queue) : hq.queue[k] = "fill") =>
          \A i \in 1..NumProbes :
              sim.probe_outputs[i] =
                  hq.at_get.probe_outputs[i]
                      \o Take(YRow(hq.at_get, i), hq.at_get.bufpositions[i])

\* the second drain of a call is reading the ring, after several launches
\* had been pending at once
C17_Witness ==
    /\ pc = "drain_loop"
    /\ hq.i = 2
    /\ hq.most_pending >= 2
    /\ sim.steps > entry.steps + B
    /\ hq.last_read = [what |-> "Y", pending |-> 0, synced |-> TRUE]

TypeOK ==
    /\ pc \in {"idle", "while", "call_n_times"}
    /\ sim.steps \in 0..MaxSteps
    /\ setup_pc \in {"off", "op_groups", "ready"}
    /\ plan_pc \in {"off", "call", "raised", "checked", "built"}
====
